---------------------------- MODULE Spec2Model ----------------------------
(***************************************************************************)
(* A model of GPModel (src/gpmodel.py): fitting, prediction and the batch  *)
(* upper-bound bandit, together with the kernel's identifier cache.        *)
(*                                                                         *)
(* Numbers.  Every real the code computes from the modelled inputs is      *)
(* either a rational, held exactly as a reduced pair <<n, d>> with d > 0,  *)
(* or a rational multiple of std, the standard deviation of the training   *)
(* residual, which is a square root.  A value x on the normalised scale    *)
(* (normed_Y, _alpha, a posterior mean computed with unnorm=False) is held *)
(* as the rational q with x = q * std; std itself is held as std2 = std^2. *)
(* Upper bounds mean + 2*sqrt(var) are compared exactly (UBCompare).       *)
(* A Cholesky factor L is held as the matrix A with L * L^T = A (the       *)
(* factor of a positive definite matrix is unique), so the two triangular  *)
(* solves against L and L^T are one solve against A.                       *)
(*                                                                         *)
(* Optional values: <<>> is None / not set, <<v>> is the value v.          *)
(***************************************************************************)
EXTENDS Integers, Sequences, FiniteSets, TLC

(***************************************************************************)
(* Bounds of the model                                                     *)
(***************************************************************************)
\* calls made on one model object in one behaviour
MaxCalls == 2
\* objective evaluations the optimizer makes in one fit
MaxEvals == 2
\* longest list of queries given to predicts
MaxQuery == 2
\* largest candidate pool given to batch_UB_bandit
MaxPool == 3
\* largest number of selections asked of batch_UB_bandit
MaxSelect == 3

(***************************************************************************)
(* Exact rational arithmetic                                               *)
(***************************************************************************)
Abs(x) == IF x < 0 THEN -x ELSE x

RECURSIVE GCD(_, _)
GCD(a, b) == IF b = 0 THEN a ELSE GCD(b, a % b)

\* the reduced fraction n/d (d # 0)
Q(n, d) ==
    LET g == GCD(Abs(n), Abs(d))
        s == IF d < 0 THEN -1 ELSE 1
    IN  <<(s * n) \div g, (s * d) \div g>>

Zero == <<0, 1>>
One == <<1, 1>>
QInt(n) == <<n, 1>>
\* sums over the least common denominator and products of cross-reduced
\* factors, which keep the intermediate integers small
QAdd(x, y) ==
    LET g == GCD(x[2], y[2])
    IN  Q(x[1] * (y[2] \div g) + y[1] * (x[2] \div g), (x[2] \div g) * y[2])
QNeg(x) == <<-x[1], x[2]>>
QSub(x, y) == QAdd(x, QNeg(y))
QMul(x, y) ==
    IF x[1] = 0 \/ y[1] = 0 THEN <<0, 1>>
    ELSE LET g == GCD(Abs(x[1]), y[2])
             h == GCD(Abs(y[1]), x[2])
         IN  <<(x[1] \div g) * (y[1] \div h), (x[2] \div h) * (y[2] \div g)>>
QInv(x) == IF x[1] < 0 THEN <<-x[2], -x[1]>> ELSE <<x[2], x[1]>>
QDiv(x, y) == QMul(x, QInv(y))
QSign(x) == IF x[1] > 0 THEN 1 ELSE IF x[1] < 0 THEN -1 ELSE 0
QLt(x, y) == QSign(QSub(x, y)) < 0
QLe(x, y) == QSign(QSub(x, y)) <= 0

RECURSIVE QSum(_)
QSum(s) == IF Len(s) = 0 THEN Zero ELSE QAdd(Head(s), QSum(Tail(s)))

\* the sequence v and the matrix M with every entry computed
Vec(v) == v \o <<>>
Mat(M) == [i \in 1..Len(M) |-> M[i] \o <<>>] \o <<>>

Dot(u, v) == QSum([i \in 1..Len(u) |-> QMul(u[i], v[i])])

\* the first row of M whose entry in column 1 is not 0, or 0
FirstPivot(M) ==
    LET P == {r \in 1..Len(M) : QSign(M[r][1]) # 0}
    IN  IF P = {} THEN 0 ELSE CHOOSE r \in P : \A q \in P : r <= q

\* M after elimination of column 1 with row p: row p and column 1 removed,
\* and from every other row its multiple of row p subtracted
Eliminate(M, p) ==
    Mat([r \in 1..(Len(M) - 1) |->
            [c \in 1..(Len(M) - 1) |->
                LET rr == IF r < p THEN r ELSE r + 1
                IN  QSub(M[rr][c + 1],
                         QMul(QDiv(M[rr][1], M[p][1]), M[p][c + 1]))]])

\* the determinant, by elimination
RECURSIVE Det(_)
DetAt(M, p) ==
    IF p = 0 THEN Zero
    ELSE QMul(IF p % 2 = 1 THEN M[p][1] ELSE QNeg(M[p][1]),
              Det(Eliminate(M, p)))

Det(M) ==
    IF Len(M) = 0 THEN One
    ELSE IF Len(M) = 1 THEN M[1][1]
    ELSE DetAt(M, FirstPivot(M))

\* the leading k x k block of M
Leading(M, k) == Mat([r \in 1..k |-> [c \in 1..k |-> M[r][c]]])

\* positive definite (Sylvester): what np.linalg.cholesky needs to succeed
IsPD(M) == \A k \in 1..Len(M) : QSign(Det(Leading(M, k))) = 1

\* the solution x of M x = b for a nonsingular M (Cramer's rule)
Solve(M, b) ==
    LET d == Det(M)
    IN  Vec([j \in 1..Len(M) |->
                QDiv(Det(Mat([r \in 1..Len(M) |->
                                [c \in 1..Len(M) |->
                                    IF c = j THEN b[r] ELSE M[r][c]]])),
                     d)])

\* the sign of r + 2*sqrt(a) - 2*sqrt(b), for rationals r and a, b >= 0
RECURSIVE SurdSign(_, _, _)
SurdSign(r, a, b) ==
    IF QSign(r) < 0 THEN -SurdSign(QNeg(r), b, a)
    ELSE IF QLe(b, a) THEN (IF QSign(r) > 0 \/ QLt(b, a) THEN 1 ELSE 0)
    ELSE IF QSign(r) = 0 THEN -1
    ELSE LET t == QSub(QMul(QInt(4), QSub(b, a)), QMul(r, r))
             s == QDiv(t, QMul(QInt(4), r))
         IN  IF QSign(t) < 0 THEN 1
             ELSE IF QSign(a) = 0 THEN (IF QSign(t) = 0 THEN 0 ELSE -1)
             ELSE IF QSign(s) = 0 THEN 1
             ELSE QSign(QSub(QDiv(a, s), s))


(***************************************************************************)
(* Optional values, sequences                                              *)
(***************************************************************************)
None == <<>>
Some(v) == <<v>>
IsNone(o) == Len(o) = 0
Get(o) == o[1]

Range(s) == {s[i] : i \in 1..Len(s)}
Injective(s) == \A i, j \in 1..Len(s) : s[i] = s[j] => i = j

\* the sequences over S of length lo..hi without a repeated element
InjSeqs(S, lo, hi) ==
    UNION {{s \in [1..n -> S] : Injective(s)} : n \in lo..hi}

\* a pandas Series: an index (identifiers) and the values, position by position
Series(idx, vals) == [index |-> idx, vals |-> vals]

(***************************************************************************)
(* The kernel (gpkernel.HammingKernel, exercised by test_kernels.py)       *)
(***************************************************************************)
Ids == {"A", "B", "C", "D"}

\* the sequences of the test set
SeqOf ==
    [A |-> <<"R", "Y", "M", "A">>, B |-> <<"R", "T", "H", "A">>,
     C |-> <<"R", "T", "M", "A">>, D |-> <<"R", "Y", "M", "A">>]

\* kern.hypers
KernHypers == <<"var_p">>

\* the number of positions at which two sequences agree
Hamming(s1, s2) == Cardinality({i \in 1..Len(s1) : s1[i] = s2[i]})

\* kern.calc_kernel(a, b, hypers=h), normalised, for two cached identifiers
calc_kernel(a, b, h) ==
    QMul(h[1], Q(Hamming(SeqOf[a], SeqOf[b]), Len(SeqOf[a])))

\* kern.make_K(X, hypers=h): the covariance matrix of the index X
make_K(X, h) ==
    Mat([i \in 1..Len(X) |-> [j \in 1..Len(X) |-> calc_kernel(X[i], X[j], h)]])

(***************************************************************************)
(* The mean function (gpmean.GPMean): a deterministic per-sequence         *)
(* baseline                                                                *)
(***************************************************************************)
MeanOf == [A |-> Zero, B |-> Zero, C |-> One, D |-> Zero]

\* mean_func.mean(X): one value per sequence of X
mean_func_mean(X) == [i \in 1..Len(X) |-> MeanOf[X[i]]]

(***************************************************************************)
(* State                                                                   *)
(***************************************************************************)
VARIABLES
    m,              \* the GPModel object's attributes
    saved_seqs,     \* the kernel's cache: the identifiers it holds
    base_X,         \* the kernel's base matrix: the index given to set_X
    pc,             \* "idle", or the position of the call in progress
    args,           \* the arguments of the call in progress, or of the last one
    loc,            \* the locals of the call in progress
    out,            \* the outcome of the last call that ended
    calls,          \* calls started so far
    minimize_calls, \* times the call in progress (or last ended) invoked minimize
    peer,           \* a second caller of the same model, or None without one
    disk            \* the file dump wrote, or None before any dump

vars == <<m, saved_seqs, base_X, pc, args, loc, out, calls, minimize_calls,
         peer, disk>>

Objectives == {"log_ML", "LOO_log_p"}

\* the guess 0.9 (gpmodel.py:165)
DefaultGuess == Q(9, 10)

\* values a hyperparameter takes at the points the optimizer visits; all are
\* inside the bounds (1e-5, None) of gpmodel.py:172
HyperVals == {DefaultGuess, One}

\* __init__ (gpmodel.py:48-70): objective and guesses come from kwargs
NewModel(objective, guesses) ==
    [objective |-> objective, guesses |-> guesses, variances |-> None,
     X_seqs |-> None, Y |-> None, ell |-> None, regr |-> None,
     mean |-> None, std2 |-> None, normed_Y |-> None, hypers |-> None,
     K |-> None, Ky |-> None, L |-> None, alpha |-> None, ML |-> None,
     log_p |-> None, f_hat |-> None, W |-> None, W_root |-> None,
     grad |-> None]

\* guesses: None, or a list of as many entries as some fit optimizes
GuessLists ==
    {None} \cup
    {Some([i \in 1..n |-> DefaultGuess]) : n \in 1..(Len(KernHypers) + 1)}

Init ==
    /\ \E o \in Objectives, g \in GuessLists : m = NewModel(o, g)
    /\ saved_seqs = {}
    /\ base_X = None
    /\ pc = "idle"
    /\ args = [op |-> "none"]
    /\ loc = None
    /\ out = None
    /\ calls = 0
    /\ minimize_calls = 0
    /\ peer = None
    /\ disk = None

(***************************************************************************)
(* Pure parts of GPModel                                                   *)
(***************************************************************************)
\* is_class with any() for all()
is_class_any(Y) == \E i \in 1..Len(Y.vals) : Y.vals[i] \in {QInt(-1), QInt(1)}

\* is_class (gpmodel.py:472-474), on the values of Y
is_class(Y) == \A i \in 1..Len(Y.vals) : Y.vals[i] \in {QInt(-1), QInt(1)}

\* pandas mean and std (ddof = 1) of a series of n >= 2 values
SeriesMean(v) == QDiv(QSum(v), QInt(Len(v)))
SeriesVar(v) ==
    LET mu == SeriesMean(v)
    IN  QDiv(QSum([i \in 1..Len(v) |-> QMul(QSub(v[i], mu), QSub(v[i], mu))]),
             QInt(Len(v) - 1))

\* _normalize (gpmodel.py:320-334): (data - m) / s, as multiples of s
\* (x / s = (x / s^2) * s)
normalize(data) ==
    LET mu == SeriesMean(data.vals)
        s2 == SeriesVar(data.vals)
    IN  [mean |-> mu, std2 |-> s2,
         normed |-> Series(data.index,
                           [i \in 1..Len(data.vals) |->
                               QDiv(QSub(data.vals[i], mu), s2)])]

\* unnormalize (gpmodel.py:336-345): normed*std + mean, for normed = q*std
unnormalize(q, mod) == QAdd(QMul(q, Get(mod.std2)), Get(mod.mean))

\* the namedtuple Hypers
Hypers(names, vals) == [names |-> names, vals |-> vals]

AddDiag(K, d) ==
    Mat([i \in 1..Len(K) |-> [j \in 1..Len(K) |->
            IF i = j THEN QAdd(K[i][j], d[i]) ELSE K[i][j]]])

\* _make_Ks (gpmodel.py:216-228): K and Ky, or the error it raises; make_K
\* without sequences scales the base matrix the kernel cached in set_X
make_Ks(mod, h) ==
    IF Len(h) = Len(KernHypers)
    THEN IF IsNone(mod.variances)
         THEN [err |-> Some("AttributeError: No variances given.")]
         ELSE LET K == make_K(Get(base_X), h)
              IN  [err |-> None, K |-> K,
                   Ky |-> AddDiag(K, Get(mod.variances).vals)]
    ELSE IF Len(h) = Len(KernHypers) + 1
    THEN LET K == make_K(Get(base_X), Tail(h))
         IN  [err |-> None, K |-> K,
              Ky |-> AddDiag(K, [i \in 1..Len(K) |-> h[1]])]
    ELSE [err |-> Some("AttributeError: len(hypers) does not match")]


\* The values below are functions of their arguments that the model does not
\* evaluate (logarithms, the logistic function): they are held as terms.

\* _log_ML for regression (gpmodel.py:456-466), given Ky and normed_Y
log_ML_regr(Ky, normed) == <<"log_ML", Ky, normed.vals>>

\* _LOO_log_p (gpmodel.py:624-640), given Ky and normed_Y
LOO_log_p(Ky, normed) == <<"LOO_log_p", Ky, normed.vals>>

\* _find_F (gpmodel.py:554-592): the mode, given K and Y
find_F(K, Y) == <<"f_hat", K, Y.vals>>

\* _hess (gpmodel.py:536-552)
hess(F) == <<"W", F>>

\* linalg.sqrtm
sqrtm(W) == <<"sqrtm", W>>

\* np.linalg.cholesky(I + W_root * Ky * W_root) (gpmodel.py:209-210)
chol_class(W_root, Ky) == <<"cholesky", W_root, Ky>>

\* _grad_log_logistic_likelihood (gpmodel.py:516-534), as a diagonal matrix
grad_lll(Y, F) == <<"grad", Y.vals, F>>

\* _logq (gpmodel.py:594-621), given f_hat, K and Y
logq(F, K, Y) == <<"logq", F, K, Y.vals>>

\* the noise term appended instead of prepended
HyperNames_appended(mod) ==
    IF Get(mod.regr) /\ IsNone(mod.variances)
    THEN KernHypers \o <<"var_n">>
    ELSE KernHypers

\* the names _set_hypers gives the entries of an iterable (gpmodel.py:185-191)
HyperNames(mod) ==
    IF Get(mod.regr) /\ IsNone(mod.variances)
    THEN <<"var_n">> \o KernHypers
    ELSE KernHypers

\* the rebuild without the posterior weights
regr_artifacts_no_alpha(mod, Ky) ==
    [mod EXCEPT !.L = Some(Ky),
                !.ML = Some(log_ML_regr(Ky, Get(mod.normed_Y))),
                !.log_p = Some(LOO_log_p(Ky, Get(mod.normed_Y)))]

\* gpmodel.py:198-203, for a positive definite Ky: L, alpha, ML and log_p
regr_artifacts(mod, Ky) ==
    [mod EXCEPT !.L = Some(Ky),
                !.alpha = Some(Solve(Ky, Get(mod.normed_Y).vals)),
                !.ML = Some(log_ML_regr(Ky, Get(mod.normed_Y))),
                !.log_p = Some(LOO_log_p(Ky, Get(mod.normed_Y)))]

\* gpmodel.py:205-214, when _find_F converges: the latent mode and what
\* follows from it
class_artifacts(mod, K) ==
    LET F == find_F(K, Get(mod.Y))
    IN  [mod EXCEPT !.f_hat = Some(F),
                    !.W = Some(hess(F)),
                    !.W_root = Some(sqrtm(hess(F))),
                    !.Ky = Some(K),
                    !.L = Some(chol_class(sqrtm(hess(F)), K)),
                    !.grad = Some(grad_lll(Get(mod.Y), F)),
                    !.ML = Some(logq(F, K, Get(mod.Y)))]

\* _set_hypers(hypers) for an iterable hypers (gpmodel.py:179-214): the model
\* it leaves and the error it raises, if any.  converged: whether _find_F
\* converges within its iteration cap (classification).
set_hypers(mod, h, converged) ==
    IF Len(h) # Len(HyperNames(mod))
    THEN [m |-> mod, err |-> Some("TypeError")]
    ELSE
    LET m1 == [mod EXCEPT !.hypers = Some(Hypers(HyperNames(mod), h))]
    IN  IF Get(mod.regr)
        THEN LET Ks == make_Ks(m1, h)
             IN  IF ~IsNone(Ks.err) THEN [m |-> m1, err |-> Ks.err]
                 ELSE LET m2 == [m1 EXCEPT !.K = Some(Ks.K), !.Ky = Some(Ks.Ky)]
                      IN  IF ~IsPD(Ks.Ky)
                          THEN [m |-> m2, err |-> Some("LinAlgError")]
                          ELSE [m |-> regr_artifacts(m2, Ks.Ky), err |-> None]
        ELSE IF ~converged
             THEN [m |-> m1, err |-> Some("RuntimeError")]
             ELSE [m |-> class_artifacts(m1, make_K(Get(base_X), h)),
                   err |-> None]

(***************************************************************************)
(* fit (gpmodel.py:127-177)                                                *)
(***************************************************************************)
Outcome(op, err, val) == [op |-> op, err |-> err, val |-> val]

\* Y - mean_func.means, position by position
Residual(X, Y) ==
    Series(Y.index,
           [i \in 1..Len(Y.vals) |-> QSub(Y.vals[i], mean_func_mean(X)[i])])

\* the index test on the sets of identifiers instead of the arrays
misaligned_as_sets(Y, V) == Range(Get(V).index) # Range(Y.index)

\* gpmodel.py:152: the index of the variances is not that of Y
misaligned(Y, V) == Get(V).index # Y.index

\* gpmodel.py:154: variances / std**2
rescale(V, std2) ==
    Series(V.index, [i \in 1..Len(V.vals) |-> QDiv(V.vals[i], std2)])

\* gpmodel.py:155-160: the number of hyperparameters to optimize
n_guesses(regr, V) ==
    IF regr /\ IsNone(V) THEN 1 + Len(KernHypers) ELSE Len(KernHypers)

\* the leave-one-out test against a name no objective has
loo_objective_misnamed(mod) == mod.objective = "LOO"

\* gpmodel.py:161: the objective is the leave-one-out one
loo_objective(mod) == mod.objective = "LOO_log_p"

\* gpmodel.py:164-167: the start point
start_point(mod, n) ==
    IF IsNone(mod.guesses) THEN [i \in 1..n |-> DefaultGuess]
    ELSE Get(mod.guesses)

\* the length test rejecting only lists that are too short
guesses_too_few(guesses, n) == Len(guesses) < n

\* gpmodel.py:168: the guesses do not fit the hyperparameters
guesses_mismatch(guesses, n) == Len(guesses) # n

\* gpmodel.py:147-170, after X_seqs, Y, _ell and regr are set: the attributes
\* assigned, the error raised if any, and the start point of the optimizer
fit_prepare(m0, X, Y, V) ==
    LET regr == Get(m0.regr)
        nm == normalize(Residual(X, Y))
        m1 == IF regr
              THEN [m0 EXCEPT !.Y = Some(Residual(X, Y)),
                              !.mean = Some(nm.mean),
                              !.std2 = Some(nm.std2),
                              !.normed_Y = Some(nm.normed)]
              ELSE m0
        bad_index == regr /\ ~IsNone(V) /\ misaligned(Y, V)
        m2 == IF regr /\ ~bad_index
              THEN [m1 EXCEPT !.variances =
                       IF IsNone(V) THEN None
                       ELSE Some(rescale(Get(V), nm.std2))]
              ELSE m1
        n == n_guesses(regr, V)
        guesses == start_point(m0, n)
    IN  IF bad_index
        THEN [m |-> m1, err |-> Some("AttributeError: Indices do not match."),
              guesses |-> <<>>]
        ELSE IF ~regr /\ loo_objective(m0)
        THEN [m |-> m2,
              err |-> Some("AttributeError: Classification models must be trained on marginal likelihood"),
              guesses |-> <<>>]
        ELSE IF guesses_mismatch(guesses, n)
        THEN [m |-> m2,
              err |-> Some("AttributeError: Length of guesses does not match number of hyperparameters"),
              guesses |-> <<>>]
        ELSE [m |-> m2, err |-> None, guesses |-> guesses]

\* the training sets for which normalisation is defined: a regression fit
\* needs at least two outputs and a nonzero std (pandas gives NaN otherwise)
Normalizable(X, Y) ==
    is_class(Y) \/ (Len(Y.vals) >= 2 /\ SeriesVar(Residual(X, Y).vals) # Zero)

\* fit, up to the call of minimize (gpmodel.py:142-172)
FitBegin(X, Y, V) ==
    /\ pc = "idle"
    /\ calls < MaxCalls
    /\ Len(Y.vals) = Len(X)
    /\ Normalizable(X, Y)
    /\ calls' = calls + 1
    /\ args' = [op |-> "fit", X |-> X, Y |-> Y, V |-> V]
    /\ base_X' = Some(X)
    /\ saved_seqs' = saved_seqs \cup Range(X)
    /\ LET m0 == [m EXCEPT !.X_seqs = Some(X), !.Y = Some(Y),
                           !.ell = Some(Len(Y.vals)),
                           !.regr = Some(~is_class(Y))]
           r == fit_prepare(m0, X, Y, V)
       IN  /\ m' = r.m
           /\ IF IsNone(r.err)
              THEN /\ pc' = "minimize"
                   /\ loc' = [x0 |-> r.guesses, evald |-> {}]
                   /\ minimize_calls' = 1
                   /\ out' = None
              ELSE /\ pc' = "idle"
                   /\ loc' = None
                   /\ minimize_calls' = 0
                   /\ out' = Some(Outcome("fit", r.err, None))
    /\ UNCHANGED <<peer, disk>>

\* an evaluation whose Cholesky failure is swallowed
objective_err_caught(mod, h, converged) ==
    IF ~Get(mod.regr)
    THEN IF converged THEN None ELSE Some("RuntimeError")
    ELSE make_Ks(mod, h).err

\* one evaluation of self.objective at the point h: the error it raises, if
\* any (_log_ML, gpmodel.py:444-470; _LOO_log_p and LOO_res, gpmodel.py:624-669)
objective_err(mod, h, converged) ==
    IF ~Get(mod.regr)
    THEN IF converged THEN None ELSE Some("RuntimeError")
    ELSE LET Ks == make_Ks(mod, h)
         IN  IF ~IsNone(Ks.err) THEN Ks.err
             ELSE IF mod.objective = "log_ML"
             THEN IF IsPD(Ks.Ky) THEN None ELSE Some("LinAlgError")
             ELSE IF Det(Ks.Ky) # Zero THEN None ELSE Some("LinAlgError")

\* the points of the search space with n coordinates
HyperPoints(n) == [1..n -> HyperVals]

\* an evaluation that stores what it built, as _set_hypers does
OptEval_storing(h, converged) ==
    /\ pc = "minimize"
    /\ Cardinality(loc.evald) < MaxEvals
    /\ h \in HyperPoints(Len(loc.x0))
    /\ loc.evald = {} => h = loc.x0
    /\ h \notin loc.evald
    /\ LET e == objective_err(m, h, converged)
       IN  IF IsNone(e)
           THEN /\ loc' = [loc EXCEPT !.evald = @ \cup {h}]
                /\ m' = set_hypers(m, h, converged).m
                /\ UNCHANGED <<pc, out>>
           ELSE /\ loc' = None
                /\ pc' = "idle"
                /\ out' = Some(Outcome("fit", e, None))
                /\ UNCHANGED m
    /\ UNCHANGED <<saved_seqs, base_X, args, calls, minimize_calls>>
    /\ UNCHANGED <<peer, disk>>

\* minimize evaluates the objective at a point: first at the start point
OptEval(h, converged) ==
    /\ pc = "minimize"
    /\ Cardinality(loc.evald) < MaxEvals
    /\ h \in HyperPoints(Len(loc.x0))
    /\ loc.evald = {} => h = loc.x0
    /\ h \notin loc.evald
    /\ LET e == objective_err(m, h, converged)
       IN  IF IsNone(e)
           THEN /\ loc' = [loc EXCEPT !.evald = @ \cup {h}]
                /\ UNCHANGED <<pc, out>>
           ELSE /\ loc' = None
                /\ pc' = "idle"
                /\ out' = Some(Outcome("fit", e, None))
    /\ UNCHANGED <<m, saved_seqs, base_X, args, calls, minimize_calls>>
    /\ UNCHANGED <<peer, disk>>

\* minimize returns the point x, with or without success; fit hands x to
\* _set_hypers (gpmodel.py:177)
FitEnd(x, success, converged) ==
    /\ pc = "minimize"
    /\ x \in loc.evald
    /\ LET r == set_hypers(m, x, converged)
       IN  /\ m' = r.m
           /\ out' = Some(Outcome("fit", r.err,
                                  Some([x |-> x, success |-> success])))
    /\ pc' = "idle"
    /\ loc' = None
    /\ UNCHANGED <<saved_seqs, base_X, args, calls, minimize_calls>>
    /\ UNCHANGED <<peer, disk>>

(***************************************************************************)
(* _predict and predicts (gpmodel.py:347-418)                              *)
(***************************************************************************)
\* kern.train(seqs): the cache after it
kern_train(cache, seqs) == cache \cup Range(seqs)

\* kern.delete(seqs.loc[ids]): the cache after it
kern_delete(cache, ids) == cache \ ids

\* the hyperparameters handed to calc_kernel (gpmodel.py:254-257, 399-402)
kernel_hypers(mod) ==
    IF Get(mod.regr) THEN Tail(Get(mod.hypers).vals) ELSE Get(mod.hypers).vals

\* the covariance vector of the sequence s against the index X
k_vector(s, X, h) == Vec([j \in 1..Len(X) |-> calc_kernel(s, X[j], h)])

\* _predict for a regression model (gpmodel.py:363-374).  With unnorm the
\* mean is on the scale of Y; without, it is the multiple of std held as its
\* rational factor.
predict_regr(mod, k, k_star, alpha, L, unnorm) ==
    LET E == Dot(k, alpha)
        var == QSub(k_star, Dot(k, Solve(L, k)))
    IN  IF unnorm
        THEN <<unnormalize(E, mod), QMul(var, Get(mod.std2))>>
        ELSE <<E, var>>

\* _predict for a classification model (gpmodel.py:375-384): pi_star, f_bar
\* and var are functions of k, k_star, the gradient, L and W_root
predict_class(mod, k, k_star) ==
    <<"pi_star", k, k_star, Get(mod.grad), Get(mod.L), Get(mod.W_root)>>

\* what stops the covariances of the sequence s from being computed, if
\* anything: calc_kernel needs one value per kernel hyperparameter and both
\* identifiers in the cache
kernel_err(cache, s, X, h) ==
    IF Len(h) # Len(KernHypers) THEN Some("IndexError")
    ELSE IF ~({s} \cup Range(X) \subseteq cache) THEN Some("KeyError")
    ELSE None

\* gpmodel.py:403-410 for one sequence ns: its prediction, or the error
predict_one(mod, cache, ns) ==
    LET X == Get(mod.X_seqs)
        h == kernel_hypers(mod)
        e == kernel_err(cache, ns, X, h)
    IN  IF ~IsNone(e) THEN [err |-> e, val |-> None]
        ELSE IF Get(mod.regr)
        THEN IF IsNone(mod.alpha) \/ IsNone(mod.L)
             THEN [err |-> Some("AttributeError"), val |-> None]
             ELSE IF Len(Get(mod.alpha)) # Len(X)
             THEN [err |-> Some("ValueError"), val |-> None]
             ELSE [err |-> None,
                   val |-> Some(predict_regr(mod, k_vector(ns, X, h),
                                             calc_kernel(ns, ns, h),
                                             Get(mod.alpha), Get(mod.L), TRUE))]
        ELSE IF IsNone(mod.grad) \/ IsNone(mod.L) \/ IsNone(mod.W_root)
             THEN [err |-> Some("AttributeError"), val |-> None]
             ELSE [err |-> None,
                   val |-> Some(predict_class(mod, k_vector(ns, X, h),
                                              calc_kernel(ns, ns, h)))]

\* predicts up to its loop (gpmodel.py:397-402): the kernel is trained on
\* the queries
PredictsBegin(new_seqs, delete) ==
    /\ pc = "idle"
    /\ calls < MaxCalls
    /\ ~IsNone(m.hypers)
    /\ calls' = calls + 1
    /\ args' = [op |-> "predicts", new_seqs |-> new_seqs, delete |-> delete]
    /\ saved_seqs' = kern_train(saved_seqs, new_seqs)
    /\ pc' = "predicts"
    /\ loc' = [i |-> 1, predictions |-> <<>>]
    /\ out' = None
    /\ minimize_calls' = 0
    /\ UNCHANGED <<m, base_X>>
    /\ UNCHANGED <<peer, disk>>

\* one turn of the loop (gpmodel.py:403-410)
PredictsStep ==
    /\ pc = "predicts"
    /\ loc.i <= Len(args.new_seqs)
    /\ LET r == predict_one(m, saved_seqs, args.new_seqs[loc.i])
       IN  IF IsNone(r.err)
           THEN /\ loc' = [i |-> loc.i + 1,
                           predictions |-> Append(loc.predictions, Get(r.val))]
                /\ UNCHANGED <<pc, out>>
           ELSE /\ loc' = None
                /\ pc' = "idle"
                /\ out' = Some(Outcome("predicts", r.err, None))
    /\ UNCHANGED <<m, saved_seqs, base_X, args, calls, minimize_calls>>
    /\ UNCHANGED <<peer, disk>>

\* every query, in the training set or not
evicted_all(new_seqs, X) == Range(new_seqs)

\* the identifiers predicts evicts (gpmodel.py:412)
evicted(new_seqs, X) == Range(new_seqs) \ Range(X)

\* the predictions as the loop left them
add_means_none(mod, new_seqs, predictions) == predictions

\* the mean function added back (gpmodel.py:414-417)
add_means(mod, new_seqs, predictions) ==
    IF Get(mod.regr)
    THEN [i \in 1..Len(predictions) |->
            <<QAdd(mean_func_mean(new_seqs)[i], predictions[i][1]),
              predictions[i][2]>>]
    ELSE predictions

\* predicts after its loop (gpmodel.py:411-418)
PredictsEnd ==
    /\ pc = "predicts"
    /\ loc.i > Len(args.new_seqs)
    /\ saved_seqs' = IF args.delete
                     THEN kern_delete(saved_seqs,
                                      evicted(args.new_seqs, Get(m.X_seqs)))
                     ELSE saved_seqs
    /\ out' = Some(Outcome("predicts", None,
                           Some(add_means(m, args.new_seqs, loc.predictions))))
    /\ pc' = "idle"
    /\ loc' = None
    /\ UNCHANGED <<m, base_X, args, calls, minimize_calls>>
    /\ UNCHANGED <<peer, disk>>

(***************************************************************************)
(* batch_UB_bandit (gpmodel.py:230-318)                                    *)
(***************************************************************************)
\* a row of df: a candidate with its posterior mean (a multiple of std, held
\* as its rational factor) and variance, its prior variance and its
\* covariance vector; its UB is mean + 2*sqrt(var)
Row(id, pred, k_star, k) ==
    [id |-> id, mean |-> pred[1], var |-> pred[2], k_star |-> k_star, k |-> k]

\* the sign of UB(a) - UB(b): that of
\* (a.mean - b.mean)*std + 2*sqrt(a.var) - 2*sqrt(b.var), times std > 0
UBCompare(a, b, std2) ==
    SurdSign(QMul(QSub(a.mean, b.mean), std2),
             QMul(a.var, std2), QMul(b.var, std2))

\* the position of the last row of maximal UB
idxmax_last(df, std2) ==
    CHOOSE j \in 1..Len(df) :
        /\ \A l \in 1..Len(df) : UBCompare(df[j], df[l], std2) >= 0
        /\ \A l \in (j + 1)..Len(df) : UBCompare(df[j], df[l], std2) > 0

\* df[['UB']].idxmax() (gpmodel.py:280): the position of the first row of
\* maximal UB
idxmax(df, std2) ==
    CHOOSE j \in 1..Len(df) :
        /\ \A l \in 1..Len(df) : UBCompare(df[j], df[l], std2) >= 0
        /\ \A l \in 1..(j - 1) : UBCompare(df[j], df[l], std2) > 0

\* self.hypers.var_n (gpmodel.py:290), when the vector has that name
has_var_n(mod) == \E i \in 1..Len(Get(mod.hypers).names) : Get(mod.hypers).names[i] = "var_n"
var_n(mod) ==
    LET h == Get(mod.hypers)
    IN  h.vals[CHOOSE i \in 1..Len(h.names) : h.names[i] = "var_n"]

\* Ky with the row k and then the column (k, corner) appended
\* (gpmodel.py:287-292)
extend_Ky(Ky, k, corner) ==
    Mat([i \in 1..(Len(Ky) + 1) |->
            [j \in 1..(Len(Ky) + 1) |->
                IF i <= Len(Ky) /\ j <= Len(Ky) THEN Ky[i][j]
                ELSE IF i = Len(Ky) + 1 /\ j = Len(Ky) + 1 THEN corner
                ELSE IF i = Len(Ky) + 1 THEN k[j]
                ELSE k[i]]])

\* a pool that keeps the candidate just selected
Drop_none(s, j) == s

\* s without its element at position j
Drop(s, j) == Vec([i \in 1..(Len(s) - 1) |-> IF i < j THEN s[i] ELSE s[i + 1]])

\* batch_UB_bandit up to its loop (gpmodel.py:247-276), predictions=None
BanditBegin(sequences, n) ==
    /\ pc = "idle"
    /\ calls < MaxCalls
    /\ ~IsNone(m.hypers)
    /\ calls' = calls + 1
    /\ args' = [op |-> "bandit", sequences |-> sequences, n |-> n]
    /\ saved_seqs' = kern_train(saved_seqs, sequences)
    /\ minimize_calls' = 0
    /\ LET X == Get(m.X_seqs)
           h == kernel_hypers(m)
           errs == {kernel_err(saved_seqs', sequences[c], X, h) :
                       c \in 1..Len(sequences)} \ {None}
           err == IF IsNone(m.normed_Y) \/ IsNone(m.Ky)
                  THEN Some("AttributeError")
                  ELSE IF errs # {} THEN CHOOSE e \in errs : TRUE
                  ELSE IF Len(sequences) = 0 THEN Some("IndexError")
                  ELSE IF Get(m.regr) /\ (IsNone(m.alpha) \/ IsNone(m.L))
                  THEN Some("AttributeError")
                  ELSE IF Get(m.regr) /\ Len(Get(m.alpha)) # Len(X)
                  THEN Some("ValueError")
                  ELSE IF ~Get(m.regr) THEN Some("ValueError")
                  ELSE None
       IN  IF IsNone(err)
           THEN /\ pc' = "bandit"
                /\ out' = None
                /\ loc' = [observed_X |-> X,
                           observed_Y |-> Get(m.normed_Y).vals,
                           Ky |-> Get(m.Ky),
                           selected |-> <<>>,
                           i |-> 0,
                           df |-> [c \in 1..Len(sequences) |->
                                     LET k == k_vector(sequences[c], X, h)
                                         k_star == calc_kernel(sequences[c], sequences[c], h)
                                     IN  Row(sequences[c],
                                             predict_regr(m, k, k_star, Get(m.alpha),
                                                          Get(m.L), FALSE),
                                             k_star, k)]]
           ELSE /\ pc' = "idle"
                /\ loc' = None
                /\ out' = Some(Outcome("bandit", err, None))
    /\ UNCHANGED <<m, base_X>>
    /\ UNCHANGED <<peer, disk>>

\* the selection of a round (gpmodel.py:277-282)
BanditSelect ==
    /\ pc = "bandit"
    /\ loc.i < args.n
    /\ LET j == idxmax(loc.df, Get(m.std2))
       IN  loc' = [loc EXCEPT !.selected = Append(@, loc.df[j].id)]
    /\ pc' = "bandit_selected"
    /\ UNCHANGED <<m, saved_seqs, base_X, args, out, calls, minimize_calls>>
    /\ UNCHANGED <<peer, disk>>

\* the update of a round that is not the last (gpmodel.py:283-316): the
\* locals after it, or the error it raises
bandit_update(mod, l) ==
    LET id == l.selected[Len(l.selected)]
        j == CHOOSE r \in 1..Len(l.df) : l.df[r].id = id
        row == l.df[j]
        h == kernel_hypers(mod)
    IN  IF ~has_var_n(mod) THEN [err |-> Some("AttributeError"), loc |-> l]
        ELSE
        LET Ky == extend_Ky(l.Ky, row.k, QAdd(row.k_star, var_n(mod)))
            Y == Append(l.observed_Y, row.mean)
        IN  IF ~IsPD(Ky) THEN [err |-> Some("LinAlgError"), loc |-> l]
            ELSE IF Len(l.df) = 1 THEN [err |-> Some("IndexError"), loc |-> l]
            ELSE
            LET alpha == Solve(Ky, Y)
                rest == Drop(l.df, j)
                df == [r \in 1..Len(rest) |->
                         LET k == Append(rest[r].k, calc_kernel(rest[r].id, id, h))
                         IN  Row(rest[r].id,
                                 predict_regr(mod, k, rest[r].k_star, alpha, Ky, FALSE),
                                 rest[r].k_star, k)]
            IN  [err |-> None,
                 loc |-> [observed_X |-> Append(l.observed_X, id),
                          observed_Y |-> Y,
                          Ky |-> Ky,
                          selected |-> l.selected,
                          i |-> l.i + 1,
                          df |-> df]]

\* a round that writes its extended copies back to the model
BanditUpdate_storing ==
    /\ pc = "bandit_selected"
    /\ IF loc.i = args.n - 1
       THEN /\ pc' = "idle"
            /\ out' = Some(Outcome("bandit", None, Some(loc.selected)))
            /\ loc' = None
            /\ m' = m
       ELSE LET r == bandit_update(m, loc)
            IN  IF IsNone(r.err)
                THEN /\ pc' = "bandit"
                     /\ loc' = r.loc
                     /\ out' = out
                     /\ m' = [m EXCEPT !.X_seqs = Some(r.loc.observed_X),
                                       !.Ky = Some(r.loc.Ky)]
                ELSE /\ pc' = "idle"
                     /\ loc' = None
                     /\ out' = Some(Outcome("bandit", r.err, None))
                     /\ m' = m
    /\ UNCHANGED <<saved_seqs, base_X, args, calls, minimize_calls>>
    /\ UNCHANGED <<peer, disk>>

\* the rest of a round: the update, or after the last selection the return
\* (gpmodel.py:283-318)
BanditUpdate ==
    /\ pc = "bandit_selected"
    /\ IF loc.i = args.n - 1
       THEN /\ pc' = "idle"
            /\ out' = Some(Outcome("bandit", None, Some(loc.selected)))
            /\ loc' = None
       ELSE LET r == bandit_update(m, loc)
            IN  IF IsNone(r.err)
                THEN /\ pc' = "bandit"
                     /\ loc' = r.loc
                     /\ out' = out
                ELSE /\ pc' = "idle"
                     /\ loc' = None
                     /\ out' = Some(Outcome("bandit", r.err, None))
    /\ UNCHANGED <<m, saved_seqs, base_X, args, calls, minimize_calls>>
    /\ UNCHANGED <<peer, disk>>

(***************************************************************************)
(* Inputs                                                                  *)
(***************************************************************************)
\* the training sets given to fit
TrainIndexes == {<<"A", "B">>, <<"B">>}
\* measured values
YVals == {QInt(-1), QInt(1), QInt(3)}
\* measurement variances
VarVals == {One}

SeriesOver(idx, Vals) == {Series(idx, v) : v \in [1..Len(idx) -> Vals]}

\* the measurements of a training set, indexed like its sequences
FitYs(X) == SeriesOver(X, YVals)

\* the indexes of as many of the identifiers of fit's training sets
IndexesLike(X) == {i \in InjSeqs(UNION {Range(T) : T \in TrainIndexes}, 1, Len(X)) : Len(i) = Len(X)}

\* no variances, or variances under any index as long as Y's
FitVs(Y) ==
    {None} \cup
    {Some(s) : s \in UNION {SeriesOver(idx, VarVals) : idx \in IndexesLike(Y.index)}}

Fit ==
    /\ pc = "idle"
    /\ \E X \in TrainIndexes : \E Y \in FitYs(X) : \E V \in FitVs(Y) :
           FitBegin(X, Y, V)

\* whether _find_F converges is open for a classification model only
Convergence == IF pc = "minimize" /\ ~Get(m.regr) THEN BOOLEAN ELSE {TRUE}

Minimize ==
    /\ pc = "minimize"
    /\ \E h \in HyperPoints(Len(loc.x0)) : \E c \in Convergence : OptEval(h, c)

FitReturn ==
    /\ pc = "minimize"
    /\ \E x \in loc.evald : \E ok \in BOOLEAN : \E c \in Convergence :
           FitEnd(x, ok, c)

Next == Fit \/ Minimize \/ FitReturn

Spec == Init /\ [][Next]_vars


(***************************************************************************)
(* Prediction and selection on a model fitted to one training set          *)
(***************************************************************************)
\* a model constructed with the default objective and guesses
InitDefault ==
    /\ m = NewModel("log_ML", None)
    /\ saved_seqs = {}
    /\ base_X = None
    /\ pc = "idle"
    /\ args = [op |-> "none"]
    /\ loc = None
    /\ out = None
    /\ calls = 0
    /\ minimize_calls = 0
    /\ peer = None
    /\ disk = None

\* fits of the sequences A and B: two regressions and a classification,
\* without variances or with aligned ones
FitAB ==
    /\ pc = "idle"
    /\ \E y \in {<<QInt(1), QInt(3)>>, <<QInt(3), QInt(-1)>>, <<QInt(-1), QInt(1)>>} :
           \E v \in {<<>>, <<One, One>>} :
               FitBegin(<<"A", "B">>, Series(<<"A", "B">>, y),
                        IF Len(v) = 0 THEN None
                        ELSE Some(Series(<<"A", "B">>, v)))

Predicts ==
    /\ pc = "idle"
    /\ \E q \in InjSeqs(Ids, 1, MaxQuery), d \in BOOLEAN : PredictsBegin(q, d)

NextPredict ==
    FitAB \/ Minimize \/ FitReturn \/ Predicts \/ PredictsStep \/ PredictsEnd

SpecPredict == InitDefault /\ [][NextPredict]_vars

Bandit ==
    /\ pc = "idle"
    /\ \E p \in InjSeqs(Ids, 0, MaxPool), n \in 1..MaxSelect : BanditBegin(p, n)

\* the optimizer returns the point whose coordinates are all 1
FitReturnOnes ==
    /\ pc = "minimize"
    /\ \E x \in loc.evald :
           /\ \A i \in 1..Len(x) : x[i] = One
           /\ \E ok \in BOOLEAN : \E c \in Convergence : FitEnd(x, ok, c)

NextBandit ==
    FitAB \/ Minimize \/ FitReturnOnes \/ Bandit \/ BanditSelect \/ BanditUpdate

SpecBandit == InitDefault /\ [][NextBandit]_vars

(***************************************************************************)
(* Properties of fit                                                       *)
(***************************************************************************)
\* a call of fit has started and nothing else has been called since
InFit == args.op = "fit"
\* the call of fit raised
FitRaised == InFit /\ pc = "idle" /\ ~IsNone(out) /\ ~IsNone(Get(out).err)
\* the call of fit returned normally
FitReturned == InFit /\ pc = "idle" /\ ~IsNone(out) /\ IsNone(Get(out).err)
\* the Y given to fit holds only -1 and +1
AllPlusMinusOne(Y) == \A i \in 1..Len(Y.vals) : Y.vals[i] = QInt(1) \/ Y.vals[i] = QInt(-1)
\* the number of hyperparameters the fit in progress has to optimize
Expected_n == Len(KernHypers) + (IF Get(m.regr) /\ IsNone(args.V) THEN 1 ELSE 0)

ConfigErrors ==
    {"AttributeError: Indices do not match.",
     "AttributeError: Classification models must be trained on marginal likelihood",
     "AttributeError: Length of guesses does not match number of hyperparameters"}

\* C1: from the moment fit has looked at Y, the model is in classification
\* mode exactly when every value of the Y it was given is -1 or +1, whatever
\* mode an earlier fit left.
C1_ModeFromY == InFit => (Get(m.regr) <=> ~AllPlusMinusOne(args.Y))

\* a classification fit returned on a model that holds the weights of an
\* earlier regression fit
C1_Witness == FitReturned /\ ~Get(m.regr) /\ ~IsNone(m.alpha)

\* C2: fit with a Y of -1/+1 values under the leave-one-out objective has
\* raised the configuration error and never invoked the optimizer.
C2_ClassLOORaises ==
    (InFit /\ AllPlusMinusOne(args.Y) /\ m.objective = "LOO_log_p") =>
        /\ FitRaised
        /\ Get(Get(out).err) =
             "AttributeError: Classification models must be trained on marginal likelihood"
        /\ minimize_calls = 0

C2_Witness ==
    InFit /\ AllPlusMinusOne(args.Y) /\ m.objective = "LOO_log_p" /\ FitRaised

\* C3: a regression fit given variances under an index other than Y's has
\* raised the validation error without invoking the optimizer; given aligned
\* variances it stores them divided by std^2 and every point the optimizer
\* is started at, evaluates or returns has the kernel's hyperparameters only.
C3_Variances ==
    (InFit /\ Get(m.regr) /\ ~IsNone(args.V)) =>
        IF Get(args.V).index # args.Y.index
        THEN /\ FitRaised
             /\ Get(Get(out).err) = "AttributeError: Indices do not match."
             /\ minimize_calls = 0
        ELSE /\ ~IsNone(m.variances)
             /\ Get(m.variances).index = Get(args.V).index
             /\ \A i \in 1..Len(Get(args.V).vals) :
                    Get(m.variances).vals[i] =
                        QDiv(Get(args.V).vals[i], Get(m.std2))
             /\ pc = "minimize" =>
                    /\ Len(loc.x0) = Len(KernHypers)
                    /\ \A h \in loc.evald : Len(h) = Len(KernHypers)
             /\ FitReturned =>
                    /\ Len(Get(Get(out).val).x) = Len(KernHypers)
                    /\ Get(m.hypers).names = KernHypers

\* a regression fit with aligned variances returned, and the stored variances
\* are not the supplied ones (std is not 1)
C3_Witness ==
    /\ FitReturned /\ Get(m.regr) /\ ~IsNone(args.V)
    /\ Get(m.variances).vals # Get(args.V).vals

\* C4: after a fit that returned, the hyperparameter vector has one entry
\* per kernel hyperparameter, and one more exactly when the model is in
\* regression mode and fit was given no variances: 'var_n', first, followed
\* by the kernel's names in the kernel's order.
C4_HyperVector ==
    FitReturned =>
        LET h == Get(m.hypers)
            noise == Get(m.regr) /\ IsNone(args.V)
        IN  /\ Len(h.vals) = Len(KernHypers) + (IF noise THEN 1 ELSE 0)
            /\ Len(h.names) = Len(h.vals)
            /\ IF noise
               THEN h.names[1] = "var_n" /\ Tail(h.names) = KernHypers
               ELSE h.names = KernHypers

C4_Witness ==
    /\ FitReturned /\ Get(m.regr) /\ IsNone(args.V)
    /\ Get(m.hypers).names[1] = "var_n"

\* C5: with guesses configured whose count is not the number of
\* hyperparameters to optimize, fit has raised a configuration error and
\* never invoked the optimizer.
C5_GuessCount ==
    (InFit /\ ~IsNone(m.guesses) /\ Len(Get(m.guesses)) # Expected_n) =>
        /\ FitRaised
        /\ Get(Get(out).err) \in ConfigErrors
        /\ minimize_calls = 0

C5_Witness ==
    /\ FitRaised /\ ~IsNone(m.guesses) /\ Len(Get(m.guesses)) # Expected_n
    /\ Get(Get(out).err) =
         "AttributeError: Length of guesses does not match number of hyperparameters"

\* C6: after a fit that returned, the hyperparameters are the point the
\* optimizer returned, whether or not it reported success, and every derived
\* artifact is the one built from that point and the training data.
C6_ArtifactsRebuilt ==
    FitReturned =>
        LET x == Get(Get(out).val).x
        IN  /\ Get(m.hypers).vals = x
            /\ IF Get(m.regr)
               THEN LET Ks == make_Ks(m, x)
                        Yn == Get(m.normed_Y)
                    IN  /\ m.K = Some(Ks.K)
                        /\ m.Ky = Some(Ks.Ky)
                        /\ m.L = Some(Ks.Ky)
                        /\ m.alpha = Some(Solve(Ks.Ky, Yn.vals))
                        /\ m.ML = Some(log_ML_regr(Ks.Ky, Yn))
                        /\ m.log_p = Some(LOO_log_p(Ks.Ky, Yn))
               ELSE LET K == make_K(Get(base_X), x)
                        F == find_F(K, Get(m.Y))
                    IN  /\ m.f_hat = Some(F)
                        /\ m.W = Some(hess(F))
                        /\ m.W_root = Some(sqrtm(hess(F)))
                        /\ m.Ky = Some(K)
                        /\ m.L = Some(chol_class(sqrtm(hess(F)), K))
                        /\ m.grad = Some(grad_lll(Get(m.Y), F))
                        /\ m.ML = Some(logq(F, K, Get(m.Y)))

\* a regression fit returned a point other than its start point, reported
\* as unsuccessful, on a model that had been fitted before
C6_Witness ==
    /\ FitReturned /\ Get(m.regr) /\ calls = 2
    /\ ~Get(Get(out).val).success
    /\ \E i \in 1..Len(Get(m.hypers).vals) : Get(m.hypers).vals[i] # DefaultGuess

(***************************************************************************)
(* Properties of predicts                                                  *)
(***************************************************************************)
InPredicts == args.op = "predicts"
PredictsReturned ==
    InPredicts /\ pc = "idle" /\ ~IsNone(out) /\ IsNone(Get(out).err)

\* C7: while predicts computes covariances every query is in the kernel's
\* cache; after it returned with delete, a query is in the cache exactly
\* when it is in the training set, and after it returned without delete
\* every query is in the cache.
C7_CacheEviction ==
    InPredicts =>
        LET q == Range(args.new_seqs)
        IN  /\ pc = "predicts" => q \subseteq saved_seqs
            /\ PredictsReturned =>
                   IF args.delete
                   THEN \A s \in q :
                            s \in saved_seqs <=> s \in Range(Get(m.X_seqs))
                   ELSE q \subseteq saved_seqs

\* predicts returned with delete for a training sequence and a new one
C7_Witness ==
    /\ PredictsReturned /\ args.delete
    /\ \E s \in Range(args.new_seqs) : s \in Range(Get(m.X_seqs))
    /\ \E s \in Range(args.new_seqs) :
           s \notin Range(Get(m.X_seqs)) /\ s \notin saved_seqs

(***************************************************************************)
(* Properties of batch_UB_bandit                                           *)
(***************************************************************************)
InBandit == args.op = "bandit"
BanditEnded == InBandit /\ pc = "idle" /\ ~IsNone(out)
Min(a, b) == IF a < b THEN a ELSE b

\* C8: batch_UB_bandit on a regression model fitted with a noise term ends
\* without an error and returns Min(n, size of the pool) identifiers of the
\* pool, pairwise distinct.
C8_TerminatesNormally ==
    (BanditEnded /\ Get(m.regr) /\ has_var_n(m)) =>
        /\ IsNone(Get(out).err)
        /\ LET sel == Get(Get(out).val)
           IN  /\ Len(sel) = Min(args.n, Len(args.sequences))
               /\ Injective(sel)
               /\ Range(sel) \subseteq Range(args.sequences)

\* the position in df of the candidate selected last
SelectedRow ==
    CHOOSE j \in 1..Len(loc.df) :
        loc.df[j].id = loc.selected[Len(loc.selected)]

\* C9: the candidate selected in a round has an upper bound, computed from
\* the posterior of the data observed so far, that no candidate in the pool
\* exceeds, and no candidate before it in the pool has an equal one.
C9_SelectsMaxUB ==
    (InBandit /\ pc = "bandit_selected") =>
        LET df == loc.df
            j == SelectedRow
            alpha == Solve(loc.Ky, loc.observed_Y)
        IN  /\ loc.selected[Len(loc.selected)] \in {df[l].id : l \in 1..Len(df)}
            /\ \A l \in 1..Len(df) :
                   /\ df[l].mean = Dot(df[l].k, alpha)
                   /\ df[l].var =
                          QSub(df[l].k_star, Dot(df[l].k, Solve(loc.Ky, df[l].k)))
                   /\ UBCompare(df[j], df[l], Get(m.std2)) >= 0
                   /\ l < j => UBCompare(df[j], df[l], Get(m.std2)) > 0

\* in a round after the first, the selected candidate ties with a later
\* one of the pool
C9_Witness ==
    /\ InBandit /\ pc = "bandit_selected" /\ loc.i >= 1
    /\ \E l \in (SelectedRow + 1)..Len(loc.df) :
           UBCompare(loc.df[SelectedRow], loc.df[l], Get(m.std2)) = 0

\* q*std is the rational r
SameValue(q, std2, r) ==
    IF QSign(q) = 0 THEN QSign(r) = 0
    ELSE QSign(r) = QSign(q) /\ QMul(r, r) = QMul(QMul(q, q), std2)

\* what predicts returns for the pool
PoolPredictions ==
    add_means(m, args.sequences,
              [c \in 1..Len(args.sequences) |->
                  Get(predict_one(m, saved_seqs, args.sequences[c]).val)])

\* C10: the candidate batch_UB_bandit selects with n = 1 is the first of
\* maximal upper bound among what predicts returns for the pool, and the
\* mean and variance the bandit holds for it are the ones predicts returns.
C10_SameAsPredicts ==
    (InBandit /\ pc = "bandit_selected" /\ args.n = 1) =>
        LET P == PoolPredictions
            rows == [c \in 1..Len(P) |->
                        Row(args.sequences[c], P[c], Zero, <<>>)]
            top == idxmax(rows, One)
            mine == loc.df[SelectedRow]
        IN  /\ mine.id = rows[top].id
            /\ SameValue(mine.mean, Get(m.std2), rows[SelectedRow].mean)
            /\ mine.var = rows[SelectedRow].var


(***************************************************************************)
(* score (gpmodel.py:671-722)                                              *)
(***************************************************************************)
MaxMetrics == 2

\* the lengths alone are compared
score_invalid_lengths(X, Y) == Len(X) # Len(Y.vals)

\* the index sets alone are compared
score_invalid_sets(X, Y) == Range(X) # Range(Y.index)

\* the validation score starts with (gpmodel.py:686)
score_invalid(X, Y) == ~(Range(X) = Range(Y.index) /\ Len(X) = Len(Y.vals))

\* Kendall's tau and R2 alone
valid_metric_two(t) == t \in {"kendalltau", "R2"}

\* the names the loop of score knows (gpmodel.py:708-716)
valid_metric(t) == t \in {"kendalltau", "R2", "R"}

\* the value of a metric on the true and the predicted values: a term
metric(t, Y, pred_Y) == <<t, Y.vals, pred_Y>>

\* a single name was requested
single_requested(scores, metrics) == Len(metrics) = 1

\* scores holds a single key (gpmodel.py:719)
single(scores, metrics) == Cardinality(DOMAIN scores) = 1

\* the loop over the requested names, from the i-th on (gpmodel.py:706-718)
RECURSIVE score_loop(_, _, _, _, _)
score_loop(metrics, i, scores, Y, pred_Y) ==
    IF i > Len(metrics) THEN [err |-> None, scores |-> scores]
    ELSE IF ~valid_metric(metrics[i])
    THEN [err |-> Some("ValueError: Invalid metric."), scores |-> scores]
    ELSE score_loop(metrics, i + 1,
                    [t \in DOMAIN scores \cup {metrics[i]} |->
                        IF t = metrics[i] THEN metric(t, Y, pred_Y)
                        ELSE scores[t]],
                    Y, pred_Y)

\* score after predicts returned predicted (gpmodel.py:692-722): a float is
\* <<"float", v>>, a dict is <<"dict", d>>
score_result(mod, Y, predicted, metrics) ==
    IF ~Get(mod.regr)
    THEN [err |-> None, val |-> Some(<<"float", <<"roc_auc", Y.vals, predicted>>>>)]
    ELSE LET pred_Y == [i \in 1..Len(predicted) |-> predicted[i][1]]
         IN  IF Len(metrics) = 0
             THEN [err |-> None,
                   val |-> Some(<<"float", metric("kendalltau", Y, pred_Y)>>)]
             ELSE LET r == score_loop(metrics, 1, [t \in {} |-> t], Y, pred_Y)
                  IN  IF ~IsNone(r.err) THEN [err |-> r.err, val |-> None]
                      ELSE IF single(r.scores, metrics)
                      THEN [err |-> None,
                            val |-> Some(<<"float",
                                           r.scores[CHOOSE t \in DOMAIN r.scores : TRUE]>>)]
                      ELSE [err |-> None, val |-> Some(<<"dict", r.scores>>)]

\* score up to the loop of the predicts it calls (gpmodel.py:685-690 and
\* 397-402)
ScoreBegin(X, Y, metrics) ==
    /\ pc = "idle"
    /\ calls < MaxCalls
    /\ ~IsNone(m.hypers)
    /\ calls' = calls + 1
    /\ args' = [op |-> "score", X |-> X, Y |-> Y, metrics |-> metrics]
    /\ minimize_calls' = 0
    /\ IF score_invalid(X, Y)
       THEN /\ pc' = "idle"
            /\ loc' = None
            /\ out' = Some(Outcome("score",
                    Some("ValueError: X and Y must be the same length and have the same indices."),
                    None))
            /\ UNCHANGED saved_seqs
       ELSE /\ pc' = "score"
            /\ loc' = [i |-> 1, predictions |-> <<>>]
            /\ out' = None
            /\ saved_seqs' = kern_train(saved_seqs, X)
    /\ UNCHANGED <<m, base_X, peer, disk>>

\* one turn of the loop of the predicts score calls (gpmodel.py:403-410)
ScoreStep ==
    /\ pc = "score"
    /\ loc.i <= Len(args.X)
    /\ LET r == predict_one(m, saved_seqs, args.X[loc.i])
       IN  IF IsNone(r.err)
           THEN /\ loc' = [i |-> loc.i + 1,
                           predictions |-> Append(loc.predictions, Get(r.val))]
                /\ UNCHANGED <<pc, out>>
           ELSE /\ loc' = None
                /\ pc' = "idle"
                /\ out' = Some(Outcome("score", r.err, None))
    /\ UNCHANGED <<m, saved_seqs, base_X, args, calls, minimize_calls, peer, disk>>

\* the predicts score calls after its loop, and the rest of score
\* (gpmodel.py:411-418 and 692-722)
ScoreEnd ==
    /\ pc = "score"
    /\ loc.i > Len(args.X)
    /\ saved_seqs' = kern_delete(saved_seqs, evicted(args.X, Get(m.X_seqs)))
    /\ LET r == score_result(m, args.Y, add_means(m, args.X, loc.predictions),
                             args.metrics)
       IN  out' = Some(Outcome("score", r.err, r.val))
    /\ pc' = "idle"
    /\ loc' = None
    /\ UNCHANGED <<m, base_X, args, calls, minimize_calls, peer, disk>>

\* the names given to score: the three it knows and one it does not
MetricNames == {"kendalltau", "R2", "R", "tau"}
MetricLists == UNION {[1..n -> MetricNames] : n \in 0..MaxMetrics}

\* the sequences scored
ScoreXs == {<<"C", "A">>, <<"B">>}
\* the indexes of the true values: that of X, one as long over other
\* identifiers, one over the same identifiers that is longer
ScoreIndexes(X) == {X, [i \in 1..Len(X) |-> "D"], Append(X, X[1])}

\* a regression and a classification
FitOne ==
    /\ pc = "idle"
    /\ \E y \in {<<QInt(1), QInt(3)>>, <<QInt(-1), QInt(1)>>} :
           FitBegin(<<"A", "B">>, Series(<<"A", "B">>, y), None)

Score ==
    /\ pc = "idle"
    /\ \E X \in ScoreXs : \E idx \in ScoreIndexes(X) : \E t \in MetricLists :
           ScoreBegin(X, Series(idx, [i \in 1..Len(idx) |-> QInt(i)]), t)

NextScore ==
    FitOne \/ Minimize \/ FitReturnOnes \/ Score \/ ScoreStep \/ ScoreEnd

SpecScore == InitDefault /\ [][NextScore]_vars

(***************************************************************************)
(* Properties of score                                                     *)
(***************************************************************************)
InScore == args.op = "score"
ScoreEnded == InScore /\ pc = "idle" /\ ~IsNone(out)
ScoreRaised == ScoreEnded /\ ~IsNone(Get(out).err)
ScoreReturned == ScoreEnded /\ IsNone(Get(out).err)
IndexError_score ==
    Some("ValueError: X and Y must be the same length and have the same indices.")

\* C11: a call of score whose X and Y differ in their index sets or in their
\* lengths ends at once with the validation error: no prediction is made and
\* the kernel cache is left as it was.
C11_ValidatesFirst ==
    [][(pc = "idle" /\ pc' # "minimize" /\ calls' = calls + 1 /\ args'.op = "score"
           /\ (Range(args'.X) # Range(args'.Y.index)
                  \/ Len(args'.X) # Len(args'.Y.vals)))
          => /\ pc' = "idle"
             /\ loc' = None
             /\ Get(out').err = IndexError_score
             /\ saved_seqs' = saved_seqs]_vars

\* the lengths differ although the index sets are the same
C11_Witness ==
    /\ ScoreRaised
    /\ Range(args.X) = Range(args.Y.index)
    /\ Len(args.X) # Len(args.Y.vals)
    /\ Get(out).err = IndexError_score

\* the names requested, without repetition
Requested == Range(args.metrics)
\* a score of a regression model whose X and Y passed the validation ended
ScoredRegr == ScoreEnded /\ Get(m.regr) /\ Get(out).err # IndexError_score
\* what score returned
Returned == Get(Get(out).val)

\* C12 as stated: a regression score returns a float when one name is
\* requested and a dict with one entry per requested name when more than one
\* is, names repeated or not.
C12_DictWhenSeveral ==
    (ScoredRegr /\ ScoreReturned /\ Len(args.metrics) > 0) =>
        IF Len(args.metrics) = 1 THEN Returned[1] = "float"
        ELSE /\ Returned[1] = "dict"
             /\ DOMAIN Returned[2] = Requested

\* C12: a regression score returns a float when the names requested are one
\* name, given once or repeated, and a dict with one entry per distinct name
\* when they are several names.
C12_DictWhenSeveralDistinct ==
    (ScoredRegr /\ ScoreReturned /\ Len(args.metrics) > 0) =>
        IF Cardinality(Requested) = 1
        THEN Returned[1] = "float" /\ Returned[2][1] = args.metrics[1]
        ELSE /\ Returned[1] = "dict"
             /\ DOMAIN Returned[2] = Requested
             /\ \A t \in Requested : Returned[2][t][1] = t

\* a name given twice: a float comes back
C12_Witness ==
    /\ ScoredRegr /\ ScoreReturned
    /\ Len(args.metrics) = 2
    /\ Cardinality(Requested) = 1
    /\ Returned[1] = "float"

\* C13: a regression score whose X and Y passed the validation returns Kendall's
\* tau when no name is given; given names, it raises the validation error
\* exactly when one of them, at any position, is not 'kendalltau', 'R2' or
\* 'R', and otherwise returns the values of the names given and of no other.
C13_NamedMetrics ==
    ScoredRegr =>
        /\ Len(args.metrics) = 0 =>
               /\ ScoreReturned
               /\ Returned[1] = "float" /\ Returned[2][1] = "kendalltau"
        /\ Get(out).err = Some("ValueError: Invalid metric.")
               <=> \E i \in 1..Len(args.metrics) :
                       args.metrics[i] \notin {"kendalltau", "R2", "R"}
        /\ (ScoreReturned /\ Len(args.metrics) > 0) =>
               LET got == IF Returned[1] = "float" THEN {Returned[2]}
                          ELSE {Returned[2][t] : t \in DOMAIN Returned[2]}
               IN  /\ {v[1] : v \in got} = Requested
                   /\ \A v \in got : v[2] = args.Y.vals /\ Len(v[3]) = Len(args.X)

\* the name that is not known comes second, after a known one
C13_Witness ==
    /\ ScoredRegr /\ ScoreRaised
    /\ Len(args.metrics) = 2
    /\ args.metrics[1] = "R"
    /\ args.metrics[2] = "tau"


(***************************************************************************)
(* dump and load (gpmodel.py:724-762)                                      *)
(***************************************************************************)
\* the slot of a key in the hash table of a dict of up to five keys: the
\* hash of the string modulo eight
HashSlot == [var_n |-> 1, var_p |-> 7]

\* the keys from the last slot to the first
dict_keys_reversed(d) ==
    LET S == DOMAIN d
        rank(k) == Cardinality({j \in S : HashSlot[j] > HashSlot[k]}) + 1
    IN  [i \in 1..Cardinality(S) |-> CHOOSE k \in S : rank(k) = i]

\* d.keys(): the keys in the order of their slots (gpmodel.py:123)
dict_keys(d) ==
    LET S == DOMAIN d
        rank(k) == Cardinality({j \in S : HashSlot[j] < HashSlot[k]}) + 1
    IN  [i \in 1..Cardinality(S) |-> CHOOSE k \in S : rank(k) = i]

\* the dict dump makes of the hyperparameters (gpmodel.py:755-757)
hypers_dict(h) ==
    [n \in Range(h.names) |-> h.vals[CHOOSE i \in 1..Len(h.names) : h.names[i] = n]]

\* the named tuple _set_params makes of a dict (gpmodel.py:122-124)
hypers_of_dict(d) ==
    LET keys == dict_keys(d)
    IN  Hypers(Vec(keys), Vec([i \in 1..Len(keys) |-> d[keys[i]]]))

\* the name dump saves for the objective (gpmodel.py:750-753)
objective_name(mod) == IF mod.objective = "log_ML" THEN "log_ML" ELSE "LOO_log_p"

\* save_me: every attribute of the model, the kernel among them, with the
\* objective as its name and the hyperparameters as a dict (gpmodel.py:749-759)
save_me(mod, kern) ==
    ("kern" :> kern) @@
    [mod EXCEPT !.objective = objective_name(mod),
                !.hypers = IF IsNone(@) THEN None ELSE Some(hypers_dict(Get(@)))]

\* the model GPModel(kern) with the attributes of the blob set on it
\* (gpmodel.py:736-737 and 103-124)
set_params(attributes) ==
    LET mod0 == NewModel("log_ML", None)
    IN  [k \in DOMAIN mod0 |->
            IF k \notin DOMAIN attributes THEN mod0[k]
            ELSE IF k = "hypers"
            THEN IF IsNone(attributes[k]) THEN None
                 ELSE Some(hypers_of_dict(Get(attributes[k])))
            ELSE attributes[k]]

\* dump (gpmodel.py:740-762)
Dump ==
    /\ pc = "idle"
    /\ args' = [op |-> "dump"]
    /\ disk' = Some(save_me(m, [saved_seqs |-> saved_seqs, base_X |-> base_X]))
    /\ out' = Some(Outcome("dump", None, None))
    /\ minimize_calls' = 0
    /\ UNCHANGED <<m, saved_seqs, base_X, pc, loc, calls, peer>>

\* load: the model it returns is the one used from then on (gpmodel.py:724-738)
Load ==
    /\ pc = "idle"
    /\ ~IsNone(disk)
    /\ args' = [op |-> "load"]
    /\ minimize_calls' = 0
    /\ LET attributes == Get(disk)
       IN  IF "kern" \notin DOMAIN attributes \/ attributes.objective \notin Objectives
           THEN /\ out' = Some(Outcome("load",
                                       IF "kern" \notin DOMAIN attributes
                                       THEN Some("KeyError")
                                       ELSE Some("AttributeError"), None))
                /\ UNCHANGED <<m, saved_seqs, base_X>>
           ELSE /\ m' = set_params([k \in DOMAIN attributes \ {"kern"} |-> attributes[k]])
                /\ saved_seqs' = attributes.kern.saved_seqs
                /\ base_X' = attributes.kern.base_X
                /\ out' = Some(Outcome("load", None, None))
    /\ UNCHANGED <<pc, loc, calls, peer, disk>>

NextPersist == FitOne \/ Minimize \/ FitReturn \/ Dump \/ Load

SpecPersist == Init /\ [][NextPersist]_vars

(***************************************************************************)
(* Properties of dump and load                                             *)
(***************************************************************************)
\* C14 as stated: the blob dump writes holds every attribute but the kernel,
\* which load has then to be given by its caller.
C14_KernelExcluded == ~IsNone(disk) => "kern" \notin DOMAIN Get(disk)

\* C15: load applied to what dump has just written gives a model with the
\* hyperparameter names, in their order, and values, the objective, the
\* guesses, the mode, the normalization constants and the derived artifacts
\* of the model dumped, fitted or not.
C15_RoundTrip ==
    [][(args.op = "dump" /\ args'.op = "load") =>
          /\ m'.hypers = m.hypers
          /\ m'.objective = m.objective
          /\ m'.guesses = m.guesses
          /\ m'.regr = m.regr
          /\ m'.mean = m.mean /\ m'.std2 = m.std2 /\ m'.normed_Y = m.normed_Y
          /\ m'.K = m.K /\ m'.Ky = m.Ky /\ m'.L = m.L /\ m'.alpha = m.alpha
          /\ m'.ML = m.ML /\ m'.log_p = m.log_p
          /\ m'.f_hat = m.f_hat /\ m'.W = m.W /\ m'.W_root = m.W_root
          /\ m'.grad = m.grad
          /\ m' = m]_vars

\* a regression model with two hyperparameters of different values was loaded
C15_Witness ==
    /\ args.op = "load" /\ IsNone(Get(out).err)
    /\ ~IsNone(m.hypers)
    /\ Get(m.hypers).names = <<"var_n", "var_p">>
    /\ Get(m.hypers).vals[1] # Get(m.hypers).vals[2]
    /\ Get(disk).hypers = Some(hypers_dict(Get(m.hypers)))


(***************************************************************************)
(* fit given measurements under an index of their own                      *)
(***************************************************************************)
\* fits of the sequences A and B to measurements indexed like them, in the
\* other order, or by other identifiers
FitXY ==
    /\ pc = "idle"
    /\ \E idx \in {<<"A", "B">>, <<"B", "A">>, <<"C", "D">>} :
           \E y \in {<<QInt(1), QInt(3)>>, <<QInt(3), QInt(-1)>>, <<QInt(-1), QInt(1)>>} :
               FitBegin(<<"A", "B">>, Series(idx, y), None)

NextIndex == FitXY \/ Minimize \/ FitReturn

SpecIndex == InitDefault /\ [][NextIndex]_vars

\* C16 as stated: a fit whose X_seqs and Y differ in their index sets raises
\* a validation error and never invokes the optimizer.
C16_IndexValidated ==
    (InFit /\ Range(args.X) # Range(args.Y.index)) =>
        (FitRaised /\ minimize_calls = 0)


(***************************************************************************)
(* What predicts returns                                                   *)
(***************************************************************************)
\* the normalized posterior mean and variance of the query s, from the noisy
\* covariance matrix and the normalized outputs of the training set
Posterior(s) ==
    LET X == Get(m.X_seqs)
        h == kernel_hypers(m)
        k == k_vector(s, X, h)
        Ky == Get(m.Ky)
    IN  [E |-> Dot(k, Solve(Ky, Get(m.normed_Y).vals)),
         var |-> QSub(calc_kernel(s, s, h), Dot(k, Solve(Ky, k)))]

FitAD ==
    /\ pc = "idle"
    /\ \E y \in {<<QInt(1), QInt(3)>>, <<QInt(3), QInt(-1)>>, <<QInt(-1), QInt(1)>>} :
           \E v \in {<<Zero, Zero>>, <<One, One>>, <<QInt(-4), QInt(-4)>>} :
               FitBegin(<<"A", "D">>, Series(<<"A", "D">>, y),
                        Some(Series(<<"A", "D">>, v)))

NextChol == FitAD \/ Minimize \/ FitReturn

SpecChol == InitDefault /\ [][NextChol]_vars

\* the noisy covariance matrix of the regression fit in progress at its
\* start point is not positive definite
StartNotPD ==
    /\ pc = "minimize"
    /\ Get(m.regr)
    /\ loc.evald = {}
    /\ ~IsPD(make_Ks(m, loc.x0).Ky)

\* C18: when the Cholesky factorization fails in an evaluation of the
\* objective inside fit, that step ends fit with the linear-algebra error:
\* nothing catches it, no other point is evaluated and no attribute of the
\* model is rebuilt.
C18_CholeskyPropagates ==
    [][/\ StartNotPD => (pc' = "idle" /\ Get(out').err = Some("LinAlgError"))
       /\ (pc = "minimize" /\ pc' = "idle" /\ Get(out').err = Some("LinAlgError"))
             => /\ m' = m
                /\ loc' = None
                /\ minimize_calls' = minimize_calls
                /\ Get(out').val = None]_vars

\* a fit ended with the error of the factorization at its first evaluation
C18_Witness ==
    /\ FitRaised
    /\ Get(out).err = Some("LinAlgError")
    /\ minimize_calls = 1
    /\ IsNone(m.hypers)
    /\ IsNone(m.L)


(***************************************************************************)
(* Two callers of predicts on one model and one kernel (gpmodel.py:386-418)*)
(***************************************************************************)
\* the second caller: whether the callers take turns (serial), the position
\* of its call, the arguments and locals of the call, and its outcome
PeerIdle(serial) ==
    [serial |-> serial, pc |-> "idle", new_seqs |-> <<>>, delete |-> FALSE,
     i |-> 0, predictions |-> <<>>, out |-> None, calls |-> 0]

InitShared ==
    /\ m = NewModel("log_ML", None)
    /\ saved_seqs = {}
    /\ base_X = None
    /\ pc = "idle"
    /\ args = [op |-> "none"]
    /\ loc = None
    /\ out = None
    /\ calls = 0
    /\ minimize_calls = 0
    /\ \E serial \in BOOLEAN : peer = Some(PeerIdle(serial))
    /\ disk = None

\* a call of the second caller that goes to its loop without training the
\* kernel
PeerBegin_untrained(new_seqs, delete) ==
    /\ ~IsNone(peer)
    /\ Get(peer).pc = "idle"
    /\ pc \in {"idle", "predicts"}
    /\ Get(peer).serial => pc = "idle"
    /\ Get(peer).calls < MaxCalls
    /\ ~IsNone(m.hypers)
    /\ peer' = Some([Get(peer) EXCEPT !.pc = "predicts", !.new_seqs = new_seqs,
                                      !.delete = delete, !.i = 1,
                                      !.predictions = <<>>, !.out = None,
                                      !.calls = @ + 1])
    /\ UNCHANGED <<m, saved_seqs, base_X, pc, args, loc, out, calls,
                   minimize_calls, disk>>

\* predicts called by the second caller, up to its loop (gpmodel.py:397-402)
PeerBegin(new_seqs, delete) ==
    /\ ~IsNone(peer)
    /\ Get(peer).pc = "idle"
    /\ pc \in {"idle", "predicts"}
    /\ Get(peer).serial => pc = "idle"
    /\ Get(peer).calls < MaxCalls
    /\ ~IsNone(m.hypers)
    /\ saved_seqs' = kern_train(saved_seqs, new_seqs)
    /\ peer' = Some([Get(peer) EXCEPT !.pc = "predicts", !.new_seqs = new_seqs,
                                      !.delete = delete, !.i = 1,
                                      !.predictions = <<>>, !.out = None,
                                      !.calls = @ + 1])
    /\ UNCHANGED <<m, base_X, pc, args, loc, out, calls, minimize_calls, disk>>

\* one turn of the second caller's loop (gpmodel.py:403-410)
PeerStep ==
    /\ ~IsNone(peer)
    /\ Get(peer).pc = "predicts"
    /\ Get(peer).i <= Len(Get(peer).new_seqs)
    /\ LET P == Get(peer)
           r == predict_one(m, saved_seqs, P.new_seqs[P.i])
       IN  IF IsNone(r.err)
           THEN peer' = Some([P EXCEPT !.i = @ + 1,
                                       !.predictions = Append(@, Get(r.val))])
           ELSE peer' = Some([P EXCEPT !.pc = "idle",
                                       !.out = Some(Outcome("predicts", r.err, None))])
    /\ UNCHANGED <<m, saved_seqs, base_X, pc, args, loc, out, calls,
                   minimize_calls, disk>>

\* the second caller's predicts after its loop (gpmodel.py:411-418)
PeerEnd ==
    /\ ~IsNone(peer)
    /\ Get(peer).pc = "predicts"
    /\ Get(peer).i > Len(Get(peer).new_seqs)
    /\ LET P == Get(peer)
       IN  /\ saved_seqs' = IF P.delete
                            THEN kern_delete(saved_seqs,
                                             evicted(P.new_seqs, Get(m.X_seqs)))
                            ELSE saved_seqs
           /\ peer' = Some([P EXCEPT !.pc = "idle",
                               !.out = Some(Outcome("predicts", None,
                                   Some(add_means(m, P.new_seqs, P.predictions))))])
    /\ UNCHANGED <<m, base_X, pc, args, loc, out, calls, minimize_calls, disk>>

\* the queries of the two callers: sequences outside the training set
SharedQueries == InjSeqs({"C", "D"}, 1, MaxQuery)

\* the model is fitted while no call of the second caller is in progress
SharedFit ==
    /\ pc = "idle"
    /\ Get(peer).pc = "idle"
    /\ FitBegin(<<"A", "B">>, Series(<<"A", "B">>, <<QInt(1), QInt(3)>>), None)

\* the first caller starts a call: when the callers take turns, only while
\* no call of the second is in progress
SharedPredicts ==
    /\ pc = "idle"
    /\ Get(peer).serial => Get(peer).pc = "idle"
    /\ \E q \in SharedQueries, d \in BOOLEAN : PredictsBegin(q, d)

PeerPredicts ==
    /\ pc \in {"idle", "predicts"}
    /\ \E q \in SharedQueries, d \in BOOLEAN : PeerBegin(q, d)

NextShared ==
    \/ SharedFit \/ Minimize \/ FitReturnOnes
    \/ SharedPredicts \/ PredictsStep \/ PredictsEnd
    \/ PeerPredicts \/ PeerStep \/ PeerEnd

SpecShared == InitShared /\ [][NextShared]_vars

\* the query the first caller's loop is at, and the second's
MainLooksUp == IF pc = "predicts" /\ loc.i <= Len(args.new_seqs)
               THEN {args.new_seqs[loc.i]} ELSE {}
PeerLooksUp == IF Get(peer).pc = "predicts" /\ Get(peer).i <= Len(Get(peer).new_seqs)
               THEN {Get(peer).new_seqs[Get(peer).i]} ELSE {}
\* a call ended with a failed lookup
LookupFailed(o) == ~IsNone(o) /\ Get(o).err = Some("KeyError")

\* C19: when the callers take turns, the query a call is about to look up is
\* in the kernel's cache, and no call ends with a failed lookup.
C19_SerializedLookups ==
    Get(peer).serial =>
        /\ MainLooksUp \subseteq saved_seqs
        /\ PeerLooksUp \subseteq saved_seqs
        /\ ~(InPredicts /\ LookupFailed(out))
        /\ ~LookupFailed(Get(peer).out)

\* the callers do not take turns: the first caller's loop is at a query that
\* is no longer in the cache, because the second caller's call, started
\* meanwhile, has returned and evicted it
C19_Witness ==
    /\ ~Get(peer).serial
    /\ pc = "predicts"
    /\ MainLooksUp # {}
    /\ ~(MainLooksUp \subseteq saved_seqs)
    /\ Get(peer).pc = "idle"
    /\ ~IsNone(Get(peer).out) /\ IsNone(Get(Get(peer).out).err)
    /\ Get(peer).delete
    /\ MainLooksUp \subseteq evicted(Get(peer).new_seqs, Get(m.X_seqs))

\* the callers take turns and both have made a call that returned
C19_WitnessSerial ==
    /\ Get(peer).serial
    /\ PredictsReturned
    /\ ~IsNone(Get(peer).out) /\ IsNone(Get(Get(peer).out).err)


(***************************************************************************)
(* LOO_res (gpmodel.py:642-669)                                            *)
(***************************************************************************)
MaxTrain == 3

\* np.linalg.inv(M): column j solves M x = e_j
Inverse(M) ==
    LET n == Len(M)
        col(j) == Solve(M, [r \in 1..n |-> IF r = j THEN One ELSE Zero])
    IN  Mat([i \in 1..n |-> [j \in 1..n |-> col(j)[i]]])

\* the means without the division by the diagonal of the inverse
LOO_res_undivided(mod, h) ==
    LET Ks == make_Ks(mod, h)
        K_inv == Inverse(Ks.Ky)
        Y == Get(mod.normed_Y).vals
    IN  [i \in 1..Len(Y) |->
            [mu |-> QSub(Y[i], Dot(K_inv[i], Y)), v |-> QInv(K_inv[i][i])]]

\* LOO_res(hypers) with add_mean and unnorm left False: a row mu, v per
\* training point, on the normalized scale (gpmodel.py:657-661)
LOO_res(mod, h) ==
    LET Ks == make_Ks(mod, h)
        K_inv == Inverse(Ks.Ky)
        Y == Get(mod.normed_Y).vals
    IN  [i \in 1..Len(Y) |->
            [mu |-> QSub(Y[i], QDiv(Dot(K_inv[i], Y), K_inv[i][i])),
             v |-> QInv(K_inv[i][i])]]

\* a call of LOO_res on a fitted regression model (gpmodel.py:642-669)
LOOBegin(h) ==
    /\ pc = "idle"
    /\ calls < MaxCalls
    /\ ~IsNone(m.hypers)
    /\ Get(m.regr)
    /\ calls' = calls + 1
    /\ args' = [op |-> "LOO_res", hypers |-> h]
    /\ minimize_calls' = 0
    /\ LET Ks == make_Ks(m, h)
       IN  out' = IF ~IsNone(Ks.err) THEN Some(Outcome("LOO_res", Ks.err, None))
                  ELSE IF Det(Ks.Ky) = Zero
                  THEN Some(Outcome("LOO_res", Some("LinAlgError"), None))
                  ELSE Some(Outcome("LOO_res", None, Some(LOO_res(m, h))))
    /\ UNCHANGED <<m, saved_seqs, base_X, pc, loc, peer, disk>>

\* the measurement of each sequence
YOf == [A |-> QInt(1), B |-> QInt(3), C |-> Zero, D |-> QInt(2)]

\* fits of two to MaxTrain sequences, without variances
FitSome ==
    /\ pc = "idle"
    /\ \E X \in InjSeqs(Ids, 2, MaxTrain) :
           FitBegin(X, Series(X, [i \in 1..Len(X) |-> YOf[X[i]]]), None)

\* the hyperparameters LOO_res is called with: those of the model, or others
LOOCall ==
    /\ pc = "idle"
    /\ \E h \in [1..(Len(KernHypers) + 1) -> {One, QInt(2)}] : LOOBegin(h)

\* minimize evaluates the objective at its start point
MinimizeStart ==
    /\ pc = "minimize"
    /\ OptEval(loc.x0, TRUE)

\* a model constructed with the guesses 1, 1: GPModel(kern, guesses=[1, 1])
InitOnes ==
    /\ m = NewModel("log_ML", Some(<<One, One>>))
    /\ saved_seqs = {}
    /\ base_X = None
    /\ pc = "idle"
    /\ args = [op |-> "none"]
    /\ loc = None
    /\ out = None
    /\ calls = 0
    /\ minimize_calls = 0
    /\ peer = None
    /\ disk = None

NextLOO == FitSome \/ MinimizeStart \/ FitReturnOnes \/ LOOCall

SpecLOO == InitOnes /\ [][NextLOO]_vars

(***************************************************************************)
(* Properties of LOO_res                                                   *)
(***************************************************************************)
LOOReturned ==
    args.op = "LOO_res" /\ pc = "idle" /\ ~IsNone(out) /\ IsNone(Get(out).err)

\* the training point i dropped, the artifacts rebuilt on the rest at the
\* hyperparameters h with the normalized outputs kept, and the point
\* predicted on the normalized scale
DropOnePredict(i, h) ==
    LET X == Get(m.X_seqs)
        rest == Drop(X, i)
        Y == Drop(Get(m.normed_Y).vals, i)
        Ky == AddDiag(make_K(rest, Tail(h)), [j \in 1..Len(rest) |-> h[1]])
        k == k_vector(X[i], rest, Tail(h))
    IN  predict_regr(m, k, calc_kernel(X[i], X[i], Tail(h)), Solve(Ky, Y), Ky, FALSE)

\* C20 as stated: the leave-one-out mean and variance of every training
\* point are the mean and variance predicted for it by the model rebuilt
\* without it at the same hyperparameters.
C20_LOOMatchesRefit ==
    LOOReturned =>
        \A i \in 1..Len(Get(m.X_seqs)) :
            /\ Get(Get(out).val)[i].mu = DropOnePredict(i, args.hypers)[1]
            /\ Get(Get(out).val)[i].v = DropOnePredict(i, args.hypers)[2]

\* C20: the leave-one-out mean of every training point is the mean predicted
\* for it by the model rebuilt without it at the same hyperparameters and
\* normalization, and its leave-one-out variance is the variance so
\* predicted plus the noise variance var_n.
C20_LOOMatchesRefitPlusNoise ==
    LOOReturned =>
        /\ Len(Get(Get(out).val)) = Len(Get(m.X_seqs))
        /\ \A i \in 1..Len(Get(m.X_seqs)) :
               /\ Get(Get(out).val)[i].mu = DropOnePredict(i, args.hypers)[1]
               /\ Get(Get(out).val)[i].v =
                      QAdd(DropOnePredict(i, args.hypers)[2], args.hypers[1])

\* three training points, with leave-one-out means that are not all the same
C20_Witness ==
    /\ LOOReturned
    /\ Len(Get(m.X_seqs)) = 3
    /\ Get(Get(out).val)[1].mu # Get(Get(out).val)[2].mu
    /\ Get(Get(out).val)[1].v # Get(Get(out).val)[3].v


(***************************************************************************)
(* What a call that raises leaves behind                                   *)
(***************************************************************************)
\* the call of fit raised one of its configuration errors
FitConfigError ==
    FitRaised /\ \E e \in ConfigErrors : Get(out).err = Some(e)

\* C21 as stated: a fit that raises a configuration error has done no
\* numerical work before: the kernel has cached nothing, nothing is
\* normalized and the optimizer was not called.  (Stated for the first call
\* on a model, where there is nothing cached or normalized beforehand.)
C21_FailFast ==
    (FitConfigError /\ calls = 1) =>
        /\ saved_seqs = {}
        /\ base_X = None
        /\ IsNone(m.mean) /\ IsNone(m.std2) /\ IsNone(m.normed_Y)
        /\ minimize_calls = 0


\* the artifacts stored on mod are those built from the vector x and the
\* stored training data, for the mode the model is in
ArtifactsAt(mod, x) ==
    IF Get(mod.regr)
    THEN /\ IsNone(make_Ks(mod, x).err)
         /\ LET Ks == make_Ks(mod, x)
                Yn == Get(mod.normed_Y)
            IN  /\ mod.K = Some(Ks.K)
                /\ mod.Ky = Some(Ks.Ky)
                /\ mod.L = Some(Ks.Ky)
                /\ mod.alpha = Some(Solve(Ks.Ky, Yn.vals))
    ELSE /\ Len(x) = Len(KernHypers)
         /\ LET K == make_K(Get(base_X), x)
                F == find_F(K, Get(mod.Y))
            IN  /\ mod.f_hat = Some(F)
                /\ mod.W = Some(hess(F))
                /\ mod.W_root = Some(sqrtm(hess(F)))
                /\ mod.Ky = Some(K)
                /\ mod.L = Some(chol_class(sqrtm(hess(F)), K))
                /\ mod.grad = Some(grad_lll(Get(mod.Y), F))

ArtifactsOfHypers == ArtifactsAt(m, Get(m.hypers).vals)

\* C22 as stated: whenever no call is in progress on a model that has
\* hyperparameters, its stored artifacts are all the ones derived from them,
\* also after a call that failed part-way.
C22_ArtifactsCurrent ==
    (pc = "idle" /\ ~IsNone(m.hypers)) => ArtifactsOfHypers

\* C29 as stated: a fit that raises a configuration or validation error
\* leaves the model exactly as it was before the call.
C29_ErrorLeavesModel ==
    [][(pc = "idle" /\ calls' = calls + 1 /\ args'.op = "fit" /\ pc' = "idle"
           /\ \E e \in ConfigErrors : Get(out').err = Some(e))
          => m' = m]_vars


(***************************************************************************)
(* Objective evaluations during fit                                        *)
(***************************************************************************)
\* a step of fit in which the optimizer evaluated the objective
Evaluated == pc = "minimize" /\ (pc' = "minimize" \/ IsNone(Get(out').val))

\* C23 as stated: every objective evaluation during fit leaves the stored
\* artifacts rebuilt for the vector it evaluated.
C23_EvalRebuilds ==
    [][(pc = "minimize" /\ pc' = "minimize")
          => \A h \in loc'.evald \ loc.evald : ArtifactsAt(m', h)]_vars

\* C23: during fit no objective evaluation changes anything stored on the
\* model; the hyperparameters and the artifacts are rebuilt once, for the
\* optimizer's final result, when fit returns.
C23_RebuiltAtResult ==
    [][/\ Evaluated => m' = m
       /\ (pc = "minimize" /\ FitReturned')
             => /\ Get(m'.hypers).vals = Get(Get(out').val).x
                /\ ArtifactsAt(m', Get(Get(out').val).x)]_vars

\* the optimizer has evaluated a point away from its start during the refit
\* of a fitted model, which still holds the earlier hyperparameters
C23_Witness ==
    /\ pc = "minimize" /\ calls = 2 /\ Cardinality(loc.evald) = 2
    /\ ~IsNone(m.hypers)
    /\ \E h \in loc.evald : h # Get(m.hypers).vals /\ h # loc.x0


(***************************************************************************)
(* _find_F (gpmodel.py:554-592): the Newton iterations for the mode of a   *)
(* classification model, with the squared change and the sum of f_new of   *)
(* each iteration as inputs                                                *)
(***************************************************************************)
\* the iteration cap: 12 here for the default evals=1000
evals == 12

\* threshold=.0001
threshold == Q(1, 10000)

\* sq_error / np.sum(f_new) < threshold (gpmodel.py:583): a float division,
\* inf or nan when the sum is zero, and then the comparison is False
below_threshold(sq_error, sum_f) ==
    IF sum_f = Zero THEN FALSE ELSE QLt(QDiv(sq_error, sum_f), threshold)

\* the comparison for a sum of f_new taken in absolute value
below_threshold_abs(sq_error, sum_f) ==
    IF sum_f = Zero THEN FALSE
    ELSE QLt(QDiv(sq_error, Q(Abs(sum_f[1]), sum_f[2])), threshold)

\* the locals of _find_F on entry: guess is None, n_below = 0
find_F_locals(caller, h) ==
    [caller |-> caller, h |-> h, i |-> 0, n_below |-> 0, hist |-> <<>>]

\* the optimizer evaluates _log_ML at its start point, which calls _find_F
\* (gpmodel.py:468)
EvalBegin ==
    /\ pc = "minimize"
    /\ ~Get(m.regr)
    /\ loc.evald = {}
    /\ pc' = "find_F"
    /\ loc' = [x0 |-> loc.x0, evald |-> {}, F |-> None,
               f |-> find_F_locals("objective", loc.x0)]
    /\ UNCHANGED <<m, saved_seqs, base_X, args, out, calls, minimize_calls>>
    /\ UNCHANGED <<peer, disk>>

\* _set_hypers(h) called on a fitted classification model: the
\* hyperparameters are assigned (gpmodel.py:185-194), then _find_F runs (205)
SetHypersBegin(h) ==
    /\ pc = "idle"
    /\ calls >= 1 /\ calls < MaxCalls
    /\ ~IsNone(m.Y) /\ ~Get(m.regr)
    /\ FitReturned
    /\ pc' = "find_F"
    /\ calls' = calls + 1
    /\ args' = [op |-> "_set_hypers", h |-> h]
    /\ out' = None
    /\ m' = set_hypers(m, h, FALSE).m
    /\ loc' = [f |-> find_F_locals("_set_hypers", h)]
    /\ UNCHANGED <<saved_seqs, base_X, minimize_calls>>
    /\ UNCHANGED <<peer, disk>>

\* a loop that hands back the last f_hat when the iterations run out
find_F_raise_partial ==
    /\ pc' = "idle"
    /\ loc' = None
    /\ out' = Some(Outcome(args.op, None, Some(loc.f.hist)))
    /\ UNCHANGED <<m, saved_seqs, base_X, args, calls, minimize_calls>>
    /\ UNCHANGED <<peer, disk>>

\* the raise after the loop (gpmodel.py:592): the caller ends with it
find_F_raise ==
    /\ pc' = "idle"
    /\ loc' = None
    /\ out' = Some(Outcome(args.op, Some("RuntimeError"), None))
    /\ UNCHANGED <<m, saved_seqs, base_X, args, calls, minimize_calls>>
    /\ UNCHANGED <<peer, disk>>

\* return f_new (gpmodel.py:587-589) to _log_ML, which returns the objective
\* value to the optimizer, or to _set_hypers, which builds the artifacts
find_F_return(F) ==
    IF loc.f.caller = "objective"
    THEN /\ pc' = "minimize"
         /\ loc' = [x0 |-> loc.x0, evald |-> {loc.f.h}, F |-> Some(F)]
         /\ UNCHANGED <<m, out>>
    ELSE /\ pc' = "idle"
         /\ loc' = None
         /\ m' = set_hypers(m, loc.f.h, TRUE).m
         /\ out' = Some(Outcome(args.op, None, Some(F)))

\* one pass of the loop body (gpmodel.py:569-590)
FindFIter(sq_error, sum_f) ==
    /\ pc = "find_F"
    /\ loc.f.i < evals
    /\ LET below == below_threshold(sq_error, sum_f)
           n_below == IF below THEN loc.f.n_below + 1 ELSE 0
           hist == Append(loc.f.hist, below)
       IN  IF n_below > 9
           THEN find_F_return([iterations |-> loc.f.i + 1, hist |-> hist,
                               sq_error |-> sq_error, sum_f |-> sum_f])
           ELSE /\ loc' = [loc EXCEPT !.f.i = @ + 1, !.f.n_below = n_below,
                                      !.f.hist = hist]
                /\ UNCHANGED <<pc, m, out>>
    /\ UNCHANGED <<saved_seqs, base_X, args, calls, minimize_calls>>
    /\ UNCHANGED <<peer, disk>>

\* range(evals) is exhausted
FindFRaise ==
    /\ pc = "find_F"
    /\ loc.f.i >= evals
    /\ find_F_raise

\* the squared changes and the sums of f_new an iteration may see
SqErrors == {Zero, One}
FSums == {QInt(-1), Zero, One}

FitClass ==
    /\ pc = "idle"
    /\ calls = 0
    /\ \E y \in {<<QInt(-1), QInt(1)>>, <<QInt(-1), QInt(-1)>>} :
           FitBegin(<<"A", "B">>, Series(<<"A", "B">>, y), None)

SetHypers ==
    /\ pc = "idle"
    /\ \E h \in HyperPoints(Len(KernHypers)) : SetHypersBegin(h)

FindF ==
    /\ pc = "find_F"
    /\ \E sq_error \in SqErrors : \E sum_f \in FSums : FindFIter(sq_error, sum_f)

\* the optimizer returns its start point; the run of _find_F that
\* _set_hypers makes there repeats the one of the evaluation
FitReturnStart ==
    /\ pc = "minimize"
    /\ \E ok \in BOOLEAN : FitEnd(loc.x0, ok, TRUE)

NextFindF ==
    FitClass \/ EvalBegin \/ FindF \/ FindFRaise \/ FitReturnStart \/ SetHypers

SpecFindF == InitDefault /\ [][NextFindF]_vars

\* the run of _find_F whose value the caller last received
Returned_F ==
    IF pc = "minimize" /\ loc.evald # {} THEN loc.F
    ELSE IF pc = "idle" /\ args.op = "_set_hypers" /\ ~IsNone(out)
            /\ IsNone(Get(out).err)
         THEN Get(out).val
         ELSE None

\* C24 as stated: when _find_F returns, the criterion held at the returning
\* iteration and at the 9 before it, so it is at least the 10th iteration,
\* and the squared change of the returned iteration is small: below the
\* threshold times the size of the sum of f_new.
C24_ReturnsConverged ==
    ~IsNone(Returned_F) =>
        LET F == Get(Returned_F)
        IN  /\ F.iterations >= 10
            /\ \A j \in (F.iterations - 9)..F.iterations : F.hist[j]
            /\ below_threshold_abs(F.sq_error, F.sum_f)

\* C25: _find_F makes at most evals iterations; when they run out without a
\* return the caller, fit or _set_hypers, ends with the convergence error and
\* no value, and until then each step is one more iteration or the return.
C25_FindFTerminates ==
    [][pc = "find_F" =>
          IF loc.f.i < evals
          THEN \/ pc' = "find_F" /\ loc'.f.i = loc.f.i + 1
               \/ pc' # "find_F" /\ IsNone(out') /\ Get(loc'.F).iterations <= evals
               \/ pc' = "idle" /\ IsNone(Get(out').err)
                    /\ Get(Get(out').val).iterations <= evals
          ELSE /\ pc' = "idle" /\ loc' = None
               /\ Get(out').err = Some("RuntimeError")
               /\ IsNone(Get(out').val)]_vars

\* a fit ended with the convergence error
C25_Witness ==
    /\ FitRaised /\ ~Get(m.regr)
    /\ Get(out).err = Some("RuntimeError") /\ IsNone(Get(out).val)
    /\ IsNone(m.hypers)

\* a call of _set_hypers ended with the convergence error
C25_WitnessSetHypers ==
    /\ pc = "idle" /\ args.op = "_set_hypers"
    /\ Get(out).err = Some("RuntimeError") /\ IsNone(Get(out).val)


(***************************************************************************)
(* The kernel hyperparameters used in training and in prediction           *)
(***************************************************************************)
\* C26 as stated: on a fitted regression model, with or without measurement
\* variances, predicts hands calc_kernel exactly the kernel hyperparameters
\* that _make_Ks handed make_K for the stored vector: the whole vector when
\* it has no noise entry, the vector without its first entry otherwise.
C26_SameKernelHypers ==
    (pc = "predicts" /\ Get(m.regr)) =>
        LET h == Get(m.hypers).vals
        IN  kernel_hypers(m) = (IF Len(h) = Len(KernHypers) THEN h ELSE Tail(h))


(***************************************************************************)
(* The working copies of batch_UB_bandit                                   *)
(***************************************************************************)
\* a step of a call of batch_UB_bandit: its start, a selection or an update
BanditStep == args'.op = "bandit" /\ (pc # "idle" \/ calls' = calls + 1)

\* C27: no step of batch_UB_bandit changes anything stored on the model
\* (training sequences, normalised outputs, K, Ky, L, alpha, hyperparameters,
\* mean, std): the rounds extend local copies only.
C27_ModelUntouched == [][BanditStep => m' = m]_vars

\* a round has extended the working copies past the model's own
C27_Witness ==
    /\ pc = "bandit" /\ loc.i >= 1
    /\ Len(loc.Ky) = Len(Get(m.Ky)) + loc.i
    /\ Len(loc.observed_X) = Len(Get(m.X_seqs)) + loc.i
    /\ Len(loc.observed_Y) = Len(Get(m.normed_Y).vals) + loc.i

\* C28: after j updates the working Ky is square of size ell + j, the
\* working outputs number ell + j, every candidate left in the pool has a
\* covariance vector of ell + j entries, and the pool is the original one
\* without the j candidates selected in those rounds.
C28_WorkingSizes ==
    pc \in {"bandit", "bandit_selected"} =>
        LET j == loc.i
            size == Get(m.ell) + j
        IN  /\ Len(loc.Ky) = size
            /\ \A r \in 1..size : Len(loc.Ky[r]) = size
            /\ Len(loc.observed_Y) = size
            /\ \A r \in 1..Len(loc.df) : Len(loc.df[r].k) = size
            /\ {loc.df[r].id : r \in 1..Len(loc.df)} =
                   Range(args.sequences) \ {loc.selected[r] : r \in 1..j}
            /\ Len(loc.df) = Len(args.sequences) - j

\* two updates have been made on a pool of three candidates
C28_Witness ==
    /\ pc = "bandit" /\ loc.i = 2 /\ Len(args.sequences) = 3
    /\ Len(loc.Ky) = Get(m.ell) + 2 /\ Len(loc.df) = 1


(***************************************************************************)
(* predicts with delete after other calls on the same kernel               *)
(***************************************************************************)
\* the second caller made one call of predicts, without delete, and it
\* returned
PeerCachedQueries ==
    /\ Get(peer).calls = 1 /\ Get(peer).pc = "idle" /\ ~Get(peer).delete
    /\ ~IsNone(Get(peer).out) /\ IsNone(Get(Get(peer).out).err)

\* C30 as stated: predicts with delete leaves the cache as it found it,
\* whatever calls came before.  With callers that take turns: the identifiers
\* that a call without delete cached, before or after, are still cached once
\* a call with delete has returned.
C30_DeleteNeutral ==
    (Get(peer).serial /\ PredictsReturned /\ args.delete /\ PeerCachedQueries)
        => Range(Get(peer).new_seqs) \subseteq saved_seqs

====
